---- MODULE Spec2Model ----
(***************************************************************************)
(* Adjoint mean-flow solver (CAdjEulerSolution / CAdjNSSolution) of        *)
(* SU2_CFD/src/solution_adjoint_mean.cpp as a state machine: one pseudo-   *)
(* time iteration is Preprocessing, the convective edge loop, the viscous  *)
(* edge loop, the source terms, the dual-time term, one boundary handler   *)
(* per marker and one time-integration driver.  Real numbers are modelled  *)
(* by integers; the sparse matrix, which is an external collaborator, is   *)
(* modelled by the sequence of calls made on it since the last SetValZero. *)
(***************************************************************************)
EXTENDS Integers, Sequences, FiniteSets, TLC

(* ------------------------------ bounds --------------------------------- *)
\* number of mesh points held by this process; the last one is a halo point
MaxPoint == 4
\* number of external iterations the model runs
MaxExtIter == 2

(* --------------------------- vector algebra ---------------------------- *)
Zero(n) == [k \in 1..n |-> 0]
Const(n, c) == [k \in 1..n |-> c]
VAdd(a, b) == [k \in 1..Len(a) |-> a[k] + b[k]]
VSub(a, b) == [k \in 1..Len(a) |-> a[k] - b[k]]
VNeg(a) == [k \in 1..Len(a) |-> 0 - a[k]]
VScale(c, a) == [k \in 1..Len(a) |-> c * a[k]]
\* sqrt, exact on the perfect squares the meshes produce
Sqrt(x) == CHOOSE r \in 0..x : r * r = x

RECURSIVE SumOver(_, _)
SumOver(f, S) ==
  IF S = {} THEN 0
  ELSE LET x == CHOOSE y \in S : TRUE IN f[x] + SumOver(f, S \ {x})

(* ------------------------------ geometry ------------------------------- *)
nPoint == MaxPoint
nPointDomain == nPoint - 1
Points == 0..(nPoint - 1)
DomainPoints == 0..(nPointDomain - 1)
HaloPoint == nPoint - 1
GetDomain(iPoint) == iPoint < nPointDomain

\* edge[iEdge]->GetNode(0), GetNode(1): a chain 0-1-...-(nPoint-1) closed by 0-2
nEdge == nPoint
Edges == [e \in 1..nEdge |-> IF e < nPoint THEN <<e - 1, e>> ELSE <<0, 2>>]

\* control volume, the flow solver's local time step, the physical time step
GetVolume(iPoint) == 2
GetDelta_Time(iPoint) == 2
GetDelta_UnstTimeND == 1
\* vertex[iMarker][iVertex]->GetDonorPoint(): the paired node of a coupling boundary
GetDonorPoint(iPoint) == (iPoint + 1) % nPointDomain

(* --------------------------- configuration ----------------------------- *)
ObjFuncs == {"DRAG_COEFFICIENT", "LIFT_COEFFICIENT", "SIDEFORCE_COEFFICIENT",
             "PRESSURE_COEFFICIENT", "MOMENT_X_COEFFICIENT", "MOMENT_Y_COEFFICIENT",
             "MOMENT_Z_COEFFICIENT", "EFFICIENCY", "EQUIVALENT_AREA",
             "NEARFIELD_PRESSURE", "FORCE_X_COEFFICIENT", "FORCE_Y_COEFFICIENT",
             "FORCE_Z_COEFFICIENT", "THRUST_COEFFICIENT", "TORQUE_COEFFICIENT",
             "FIGURE_OF_MERIT", "FREESURFACE", "NOISE"}

\* the objectives whose 2-D case prints "This functional is not possible in 2D!!"
NotPossibleIn2D == {"SIDEFORCE_COEFFICIENT", "MOMENT_X_COEFFICIENT",
                    "MOMENT_Y_COEFFICIENT", "FORCE_Z_COEFFICIENT",
                    "THRUST_COEFFICIENT", "FIGURE_OF_MERIT"}

FluxBoundaryKinds == {"FAR_FIELD", "INLET_FLOW", "OUTLET_FLOW",
                      "NACELLE_INFLOW", "NACELLE_EXHAUST"}
BoundaryKinds == FluxBoundaryKinds \cup
                 {"EULER_WALL", "NO_SLIP_WALL", "SYMMETRY_PLANE", "FWH_SURFACE",
                  "INTERFACE_BOUNDARY", "NEARFIELD_BOUNDARY", "SEND_RECEIVE"}

VARIABLES
  cfg,            \* CConfig and the mesh: options, markers, coordinates (constant)
  pc,             \* position of the driver in the iteration
  lastOp,         \* the solver operation that returned last
  ExtIter,        \* config->GetExtIter()
  iRKStep,        \* Runge-Kutta stage of the current iteration
  iEdge,          \* position of the running edge loop (1-based)
  iMarker,        \* position of the boundary loop (1-based)
  Solution,       \* node[iPoint]->GetSolution()
  Solution_Old,   \* node[iPoint]->GetSolution_Old()
  ResConv,        \* node[iPoint]->GetResConv()
  ResVisc,        \* node[iPoint]->GetResVisc()
  ResSour,        \* node[iPoint]->GetResSour()
  Res_TruncError, \* node[iPoint]->GetRes_TruncError()
  ForceProj,      \* node[iPoint]->GetForceProj_Vector()
  ObjFuncSource,  \* node[iPoint]->GetObjFuncSource()
  JacOps,         \* calls made on Jacobian since the last SetValZero
  remote,         \* state the neighbouring process holds for the halo point
  pass,           \* 1, or 2 while the assembly is being re-run
  firstRes,       \* residuals kept from the first assembly run
  VertexNormal,   \* geometry->vertex[..]->GetNormal(), the stored face normal of a boundary point
  CSensitivity,   \* CSensitivity[iMarker][iVertex], the surface sensitivity
  Und_Lapl,       \* node[iPoint]->GetUnd_Lapl(), the undivided Laplacian
  local           \* the local variables of the boundary routine that ran last

cfgVars == <<cfg>>
ctlVars == <<pc, lastOp, ExtIter, iRKStep, iEdge, iMarker, pass, firstRes>>
solVars == <<Solution, Solution_Old, remote>>
resVars == <<ResConv, ResVisc, ResSour, Res_TruncError>>
auxVars == <<ForceProj, ObjFuncSource>>
sensVars == <<VertexNormal, CSensitivity, Und_Lapl, local>>
\* node[iPoint]->GetCoord(): node coordinates (x, y, z)
GetCoord(iPoint) == cfg.Coord[iPoint]
\* vertex[iMarker][iVertex]->GetNormal(): the boundary-face normal of a vertex
GetNormal(iPoint) == VertexNormal[iPoint]
vars == <<cfg, pc, lastOp, ExtIter, iRKStep, iEdge, iMarker, Solution,
          Solution_Old, ResConv, ResVisc, ResSour, Res_TruncError, ForceProj,
          ObjFuncSource, JacOps, remote, pass, firstRes, VertexNormal, CSensitivity,
          Und_Lapl, local>>

nDim == cfg.nDim
nVar == IF cfg.Incompressible THEN nDim + 1 ELSE nDim + 2
implicit == cfg.Kind_TimeIntScheme_AdjFlow = "EULER_IMPLICIT"
flow_implicit == cfg.Kind_TimeIntScheme_Flow = "EULER_IMPLICIT"
discrete == cfg.Kind_Adjoint = "DISCRETE"
nMarker == Len(cfg.Markers)

\* Get_Beta_RKStep, Get_Alpha_RKStep: dissipation is frozen after the first stage
nRKStep == IF cfg.Kind_TimeIntScheme_AdjFlow = "RUNGE_KUTTA_EXPLICIT" THEN 2 ELSE 1
Get_Beta_RKStep(k) == IF k = 0 THEN 1 ELSE 0
Get_Alpha_RKStep(k) == IF k = 0 THEN 2 ELSE 1

(* -------------------- SetForceProj_Vector (438-634) -------------------- *)
\* angles are multiples of 90 degrees, so that cos and sin stay integers
CosDeg(a) == IF a = 0 THEN 1 ELSE 0
SinDeg(a) == IF a = 90 THEN 1 ELSE 0
\* the coefficients built from the flow solver's totals, normalised to one
C_p == 1
invCD == 1
CLCD2 == 1
invCQ == 1
CTRCQ2 == 1
WDrag == 1
RefLengthMoment == 1
RefOriginMoment == <<0, 0, 0>>

ForceProjOf(obj, iPoint) ==
  LET cA == CosDeg(cfg.AoA)  sA == SinDeg(cfg.AoA)
      cB == CosDeg(cfg.AoS)  sB == SinDeg(cfg.AoS)
      x == GetCoord(iPoint)[1] - RefOriginMoment[1]
      y == GetCoord(iPoint)[2] - RefOriginMoment[2]
      z == IF nDim = 3 THEN GetCoord(iPoint)[3] - RefOriginMoment[3]
                       ELSE 0 - RefOriginMoment[3]
      N == GetNormal(iPoint)
      v3 == CASE obj = "DRAG_COEFFICIENT" -> <<C_p*cA*cB, C_p*sB, C_p*sA*cB>>
              [] obj = "LIFT_COEFFICIENT" -> <<0 - C_p*sA, 0, C_p*cA>>
              [] obj = "SIDEFORCE_COEFFICIENT" -> <<0 - C_p*sB*cA, C_p*cB, 0 - C_p*sB*sA>>
              [] obj = "PRESSURE_COEFFICIENT" -> <<0 - C_p*N[1], 0 - C_p*N[2], 0 - C_p*N[3]>>
              [] obj = "MOMENT_X_COEFFICIENT" -> <<0, 0 - C_p*z, C_p*y>>
              [] obj = "MOMENT_Y_COEFFICIENT" -> <<0 - C_p*z, 0, C_p*x>>
              [] obj = "MOMENT_Z_COEFFICIENT" -> <<0 - C_p*y, C_p*x, 0>>
              [] obj = "EFFICIENCY" -> <<0 - C_p*(invCD*sA + CLCD2*cA*cB), 0 - C_p*CLCD2*sB,
                                         C_p*(invCD*cA - CLCD2*sA*cB)>>
              [] obj \in {"EQUIVALENT_AREA", "NEARFIELD_PRESSURE"} ->
                   <<C_p*cA*cB*WDrag, C_p*sB*WDrag, C_p*sA*cB*WDrag>>
              [] obj = "FORCE_X_COEFFICIENT" -> <<C_p, 0, 0>>
              [] obj = "FORCE_Y_COEFFICIENT" -> <<0, C_p, 0>>
              [] obj \in {"FORCE_Z_COEFFICIENT", "THRUST_COEFFICIENT"} -> <<0, 0, C_p>>
              [] obj = "TORQUE_COEFFICIENT" -> <<C_p*y, 0 - C_p*x, 0>>
              [] obj = "FIGURE_OF_MERIT" -> <<0 - C_p*invCQ, 0 - C_p*CTRCQ2*z, C_p*CTRCQ2*y>>
              [] OTHER -> <<0, 0, 0>>
      v2 == CASE obj = "DRAG_COEFFICIENT" -> <<C_p*cA, C_p*sA>>
              [] obj = "LIFT_COEFFICIENT" -> <<0 - C_p*sA, C_p*cA>>
              [] obj = "PRESSURE_COEFFICIENT" -> <<0 - C_p*N[1], 0 - C_p*N[2]>>
              [] obj = "MOMENT_Z_COEFFICIENT" -> <<0 - C_p*y, C_p*x>>
              [] obj = "EFFICIENCY" -> <<0 - C_p*(invCD*sA + CLCD2*cA),
                                         C_p*(invCD*cA - CLCD2*sA)>>
              [] obj \in {"EQUIVALENT_AREA", "NEARFIELD_PRESSURE"} ->
                   <<C_p*cA*WDrag, C_p*sA*WDrag>>
              [] obj = "FORCE_X_COEFFICIENT" -> <<C_p, 0>>
              [] obj = "FORCE_Y_COEFFICIENT" -> <<0, C_p>>
              [] obj = "TORQUE_COEFFICIENT" -> <<C_p*y, 0 - C_p*x>>
              [] OTHER -> <<0, 0>>
  IN IF nDim = 2 THEN v2 ELSE v3

\* the vertices the double loop of lines 507-509 visits, in order
RECURSIVE MonitoredFrom(_)
MonitoredFrom(m) ==
  IF m > nMarker THEN <<>>
  ELSE (IF cfg.Markers[m].Boundary # "SEND_RECEIVE" /\ cfg.Markers[m].Monitoring
          THEN cfg.Markers[m].Vertex ELSE <<>>) \o MonitoredFrom(m + 1)
MonitoredVertices == MonitoredFrom(1)

\* the switch case of this vertex ends in cin.get(); exit(1)
FatalIn2D == nDim = 2 /\ cfg.Kind_ObjFunc \in NotPossibleIn2D

(* ------------- numerics routines (CNumerics::SetResidual) -------------- *)
\* The flux routines live outside this file.  Each returns one flux for the
\* edge: the contribution of node 0 is the flux, that of node 1 its negation
\* (convective), and the dissipation is the difference of the two states.
CenteredFlux(Psi_i, Psi_j) ==
  [conv_i |-> VAdd(Psi_i, Psi_j), conv_j |-> VNeg(VAdd(Psi_i, Psi_j)),
   visc_i |-> VSub(Psi_i, Psi_j), visc_j |-> VSub(Psi_j, Psi_i)]
\* first order: the state of node 0 (twice); second order: the MUSCL mean
UpwindFlux(Psi_i, Psi_j, high_order) ==
  LET F == IF high_order THEN VAdd(Psi_i, Psi_j) ELSE VScale(2, Psi_i)
  IN [res_i |-> F, res_j |-> VNeg(F)]
\* one gradient flux for the edge, handed back for both nodes
ViscousFlux(Psi_i, Psi_j) ==
  [res_i |-> VSub(Psi_j, Psi_i), res_j |-> VSub(Psi_j, Psi_i)]
\* boundary flux between the node's state and the exterior state
BoundaryFlux(Psi_domain, Psi_exterior) == VAdd(Psi_domain, Psi_exterior)
\* source terms: rotating frame, axisymmetric, viscous (gradient) source
SourceFlux(Psi_i) == Psi_i
\* GetTimeSpectral_Source(iVar) and GetIntBoundary_Jump(): stored per node
GetTimeSpectral_Source(iPoint) == Const(nVar, 1)
GetIntBoundary_Jump(iPoint) == [k \in 1..nVar |-> k]

(* ------------------------- the sparse matrix --------------------------- *)
\* one call on Jacobian: AddBlock, SubtractBlock (blk names the block handed
\* over), DeleteValsRowi (col is the variable index) or AddVal2Diag
JacCall(op, row, col, blk, src, e) ==
  [op |-> op, row |-> row, col |-> col, blk |-> blk, src |-> src, edge |-> e]

(* ----------------------- SetSolution_MPI (319-436) ---------------------- *)
\* vertex[iMarker][iVertex]->GetRotation_Type(): the periodic index of the
\* vertex at the point; index 0 is the transformation with no rotation
GetRotation_Type(iPoint) == IF iPoint = 5 THEN 0 ELSE 1
\* config->GetPeriodicRotation(iPeriodic_Index): theta, phi, psi
GetPeriodicRotation(iPeriodic_Index) ==
  IF iPeriodic_Index = 0 THEN <<0, 0, 0>> ELSE <<0, 0, 90>>

rotMatrix(iPeriodic_Index) ==
  LET angles == GetPeriodicRotation(iPeriodic_Index)
      cosTheta == CosDeg(angles[1])  sinTheta == SinDeg(angles[1])
      cosPhi == CosDeg(angles[2])    sinPhi == SinDeg(angles[2])
      cosPsi == CosDeg(angles[3])    sinPsi == SinDeg(angles[3])
  IN << << cosPhi*cosPsi, cosPhi*sinPsi, 0 - sinPhi >>,
        << sinTheta*sinPhi*cosPsi - cosTheta*sinPsi,
           sinTheta*sinPhi*sinPsi + cosTheta*cosPsi, sinTheta*cosPhi >>,
        << cosTheta*sinPhi*cosPsi + sinTheta*sinPsi,
           cosTheta*sinPhi*sinPsi - sinTheta*cosPsi, cosTheta*cosPhi >> >>

\* variant: the received vector copied without the transformation
newSolution_Raw(Buffer_Receive_U, nd, iPeriodic_Index) == Buffer_Receive_U

\* the received vector with its momentum components rotated
newSolution(Buffer_Receive_U, nd, iPeriodic_Index) ==
  [k \in 1..Len(Buffer_Receive_U) |->
     IF k \in 2..(nd + 1)
       THEN SumOver([d \in 1..nd |->
                       rotMatrix(iPeriodic_Index)[k - 1][d] * Buffer_Receive_U[d + 1]], 1..nd)
       ELSE Buffer_Receive_U[k]]

(* ------------------------------- Init ---------------------------------- *)
TimeIntSchemes == {"RUNGE_KUTTA_EXPLICIT", "EULER_EXPLICIT", "EULER_IMPLICIT"}
ConvSchemes == {<<"SPACE_CENTERED", "NONE">>, <<"SPACE_UPWIND", "ROE_1ST">>,
                <<"SPACE_UPWIND", "ROE_2ND">>}
\* unsteady mode, axisymmetric, rotating frame
SourceConfigs == {<<"STEADY", FALSE, FALSE>>, <<"DT_STEPPING_1ST", FALSE, FALSE>>,
                  <<"DT_STEPPING_2ND", FALSE, FALSE>>, <<"TIME_SPECTRAL", FALSE, TRUE>>,
                  <<"STEADY", TRUE, FALSE>>}
SecondMarkerKinds == FluxBoundaryKinds \cup
  {"SYMMETRY_PLANE", "FWH_SURFACE", "INTERFACE_BOUNDARY", "NEARFIELD_BOUNDARY"}

Marker(kind, sendrecv, mon, verts) ==
  [Boundary |-> kind, SendRecv |-> sendrecv, Monitoring |-> mon, Vertex |-> verts]

\* a wall over node 0 and the halo point, a second boundary over node 1,
\* a send marker over the last owned point and the receive marker of the halo
MarkersOf(wall, monWall, kind2, mon2) ==
  << Marker(wall, 0, monWall, <<0, HaloPoint>>),
     Marker(kind2, 0, mon2, <<1>>),
     Marker("SEND_RECEIVE", 1, FALSE, <<nPointDomain - 1>>),
     Marker("SEND_RECEIVE", -1, FALSE, <<HaloPoint>>) >>

Config(nd, obj, aoa, tAdj, tFlow, adj, conv, visc, src, ms) ==
  [nDim |-> nd, Incompressible |-> FALSE, Kind_ObjFunc |-> obj, AoA |-> aoa, AoS |-> 0,
   Kind_TimeIntScheme_AdjFlow |-> tAdj, Kind_TimeIntScheme_Flow |-> tFlow,
   Kind_Adjoint |-> adj, Kind_ConvNumScheme |-> conv[1], Kind_Upwind |-> conv[2],
   Viscous |-> visc, Unsteady_Simulation |-> src[1], Axisymmetric |-> src[2],
   Rotating_Frame |-> src[3], Markers |-> ms,
   Coord |-> [p \in Points |-> <<p, 1, 2>>]]

\* the two states the run may start from: a generic field, or the field that
\* already equals the stored jump vectors (with a multigrid forcing term)
InitField(v, iPoint, n) ==
  IF v = 1 THEN [k \in 1..n |-> iPoint + k] ELSE [k \in 1..n |-> k]
InitTrunc(v, n) == IF v = 1 THEN Zero(n) ELSE Const(n, 1)

InitState(c, v) ==
  LET n == IF c.Incompressible THEN c.nDim + 1 ELSE c.nDim + 2 IN
  /\ cfg = c
  /\ pc = "SetForceProj_Vector"
  /\ lastOp = "constructor"
  /\ ExtIter = 0
  /\ iRKStep = 0
  /\ iEdge = 1
  /\ iMarker = 1
  /\ Solution = [p \in Points |->
                   IF GetDomain(p) THEN InitField(v, p, n)
                   ELSE newSolution(InitField(v, HaloPoint, n), c.nDim,
                                    GetRotation_Type(HaloPoint))]
  /\ Solution_Old = [p \in Points |-> InitField(v, p, n)]
  /\ ResConv = [p \in Points |-> Zero(n)]
  /\ ResVisc = [p \in Points |-> Zero(n)]
  /\ ResSour = [p \in Points |-> Zero(n)]
  /\ Res_TruncError = [p \in Points |-> InitTrunc(v, n)]
  /\ ForceProj = [p \in Points |-> Zero(c.nDim)]
  /\ ObjFuncSource = [p \in Points |-> Zero(n)]
  /\ JacOps = <<>>
  /\ remote = InitField(v, HaloPoint, n)
  /\ pass = 1
  /\ firstRes = [sol |-> <<>>, res |-> <<>>]
  /\ VertexNormal = [p \in Points |-> <<0, -1, 0>>]
  /\ CSensitivity = <<>>
  /\ Und_Lapl = <<>>
  /\ local = <<>>

\* the cases of a run: every boundary kind on a steady case, every source
\* configuration with a far-field boundary, the field that starts on the
\* jump vectors with an FWH surface (all for the drag objective), and a
\* steady case for the lift objective, whose vector is normal to the wall
RunCases ==
  {<<<<"STEADY", FALSE, FALSE>>, k, 1, "DRAG_COEFFICIENT">> : k \in SecondMarkerKinds}
    \cup {<<src, "FAR_FIELD", 1, "DRAG_COEFFICIENT">> : src \in SourceConfigs}
    \cup {<<<<"STEADY", FALSE, FALSE>>, "FWH_SURFACE", 2, "DRAG_COEFFICIENT">>}
    \cup {<<<<"STEADY", FALSE, FALSE>>, "FAR_FIELD", 1, "LIFT_COEFFICIENT">>}

Init ==
  \E tAdj \in TimeIntSchemes, tFlow \in {"RUNGE_KUTTA_EXPLICIT", "EULER_IMPLICIT"},
     adj \in {"CONTINUOUS", "DISCRETE"}, conv \in ConvSchemes, visc \in BOOLEAN,
     rc \in RunCases :
    InitState(Config(2, rc[4], 0, tAdj, tFlow, adj, conv, visc, rc[1],
                     MarkersOf(IF visc THEN "NO_SLIP_WALL" ELSE "EULER_WALL",
                               TRUE, rc[2], FALSE)), rc[3])

(* -------------------- SetForceProj_Vector: the loop -------------------- *)
\* the whole call when no visited vertex ends the program: every monitored
\* vertex stores the vector of the objective at its node (line 627)
SetForceProj_Store(fp) ==
  [p \in Points |->
     IF \E k \in 1..Len(MonitoredVertices) : MonitoredVertices[k] = p
       THEN ForceProjOf(cfg.Kind_ObjFunc, p) ELSE fp[p]]

\* the call reaches a vertex whose case is not possible in 2-D (lines 527-530)
SetForceProj_Fatal == Len(MonitoredVertices) > 0 /\ FatalIn2D

SetForceProj_Vector ==
  /\ pc = "SetForceProj_Vector"
  /\ ~SetForceProj_Fatal
  /\ ForceProj' = SetForceProj_Store(ForceProj)
  /\ pc' = "Preprocessing"
  /\ lastOp' = "SetForceProj_Vector"
  /\ UNCHANGED <<cfg, sensVars, ExtIter, iRKStep, iEdge, iMarker, pass, firstRes>>
  /\ UNCHANGED <<solVars, resVars, ObjFuncSource, JacOps>>

\* "This functional is not possible in 2D!!", "Press any key to exit...":
\* the process now waits in cin.get()
SetForceProj_Vector_Diagnostic ==
  /\ pc = "SetForceProj_Vector"
  /\ SetForceProj_Fatal
  /\ pc' = "cin.get"
  /\ lastOp' = "diagnostic"
  /\ UNCHANGED <<cfg, sensVars, ExtIter, iRKStep, iEdge, iMarker, pass, firstRes>>
  /\ UNCHANGED <<solVars, resVars, auxVars, JacOps>>

\* a character (or end of input) arrives on standard input: exit(1)
KeyPressed_Exit ==
  /\ pc = "cin.get"
  /\ pc' = "exit"
  /\ lastOp' = "exit"
  /\ UNCHANGED <<cfg, sensVars, ExtIter, iRKStep, iEdge, iMarker, pass, firstRes>>
  /\ UNCHANGED <<solVars, resVars, auxVars, JacOps>>

(* ------------------------ Preprocessing (936-982) ---------------------- *)
dissipation == (Get_Beta_RKStep(iRKStep) # 0) \/ implicit

\* variants: the accumulators left as they are
Set_Res_Keep(res) == res
Preprocessing_ResVisc_Keep(res) == res

\* Set_ResConv_Zero / Set_ResSour_Zero on every point, owned or halo
Set_Res_Zero(res) == [p \in Points |-> Zero(nVar)]

\* Set_ResVisc_Zero runs only if the stage has dissipation or the run is implicit
Preprocessing_ResVisc(res) ==
  IF (Get_Beta_RKStep(iRKStep) # 0) \/ implicit
    THEN [p \in Points |-> Zero(nVar)] ELSE res

\* Jacobian.SetValZero()
Preprocessing_Jacobian(ops) == IF implicit \/ discrete THEN <<>> ELSE ops

Preprocessing ==
  /\ pc = "Preprocessing"
  /\ ResConv' = Set_Res_Zero(ResConv)
  /\ ResSour' = Set_Res_Zero(ResSour)
  /\ ResVisc' = Preprocessing_ResVisc(ResVisc)
  /\ JacOps' = Preprocessing_Jacobian(JacOps)
  /\ pc' = "Convective_Residual"
  /\ iEdge' = 1
  /\ lastOp' = "Preprocessing"
  /\ firstRes' = IF pass = 1 THEN [sol |-> Solution, res |-> <<>>] ELSE firstRes
  /\ UNCHANGED <<cfg, sensVars, ExtIter, iRKStep, iMarker, pass>>
  /\ UNCHANGED <<solVars, Res_TruncError, auxVars>>

(* ---------------------- Centered_Residual (984-1064) ------------------- *)
AfterConvective == IF cfg.Viscous THEN "Viscous_Residual" ELSE "Source_Residual"

\* variant: the contribution of node 1 handed to AddRes_Conv
Centered_UpdateConv_Add1(res, iPoint, jPoint, Res_Conv_i, Res_Conv_j) ==
  [res EXCEPT ![iPoint] = VSub(@, Res_Conv_i), ![jPoint] = VAdd(@, Res_Conv_j)]

\* lines 1048-1049: both contributions are handed to SubtractRes_Conv
Centered_UpdateConv(res, iPoint, jPoint, Res_Conv_i, Res_Conv_j) ==
  [res EXCEPT ![iPoint] = VSub(@, Res_Conv_i), ![jPoint] = VSub(@, Res_Conv_j)]

\* lines 1050-1053
Centered_UpdateVisc(res, iPoint, jPoint, Res_Visc_i, Res_Visc_j) ==
  IF dissipation
    THEN [res EXCEPT ![iPoint] = VSub(@, Res_Visc_i), ![jPoint] = VSub(@, Res_Visc_j)]
    ELSE res

\* lines 1056-1062
Centered_Implicit(iPoint, jPoint, e) ==
  IF implicit
    THEN << JacCall("SubtractBlock", iPoint, iPoint, "Jacobian_ii", "Centered_Residual", e),
            JacCall("SubtractBlock", iPoint, jPoint, "Jacobian_ij", "Centered_Residual", e),
            JacCall("SubtractBlock", jPoint, iPoint, "Jacobian_ji", "Centered_Residual", e),
            JacCall("SubtractBlock", jPoint, jPoint, "Jacobian_jj", "Centered_Residual", e) >>
    ELSE <<>>

\* one pass of the edge loop
Centered_Residual ==
  /\ pc = "Convective_Residual"
  /\ cfg.Kind_ConvNumScheme = "SPACE_CENTERED"
  /\ iEdge <= nEdge
  /\ LET iPoint == Edges[iEdge][1]
         jPoint == Edges[iEdge][2]
         F == CenteredFlux(Solution[iPoint], Solution[jPoint])
     IN /\ ResConv' = Centered_UpdateConv(ResConv, iPoint, jPoint, F.conv_i, F.conv_j)
        /\ ResVisc' = Centered_UpdateVisc(ResVisc, iPoint, jPoint, F.visc_i, F.visc_j)
        /\ JacOps' = JacOps \o Centered_Implicit(iPoint, jPoint, iEdge)
  /\ iEdge' = IF iEdge = nEdge THEN 1 ELSE iEdge + 1
  /\ pc' = IF iEdge = nEdge THEN AfterConvective ELSE pc
  /\ lastOp' = "Centered_Residual"
  /\ UNCHANGED <<cfg, sensVars, ExtIter, iRKStep, iMarker, pass, firstRes>>
  /\ UNCHANGED <<solVars, ResSour, Res_TruncError, auxVars>>

(* ----------------------- Upwind_Residual (1067-1247) ------------------- *)
high_order_diss == cfg.Kind_Upwind = "ROE_2ND"

\* variant: the contribution of node 1 handed to AddRes_Conv
Upwind_UpdateConv_Add1(res, iPoint, jPoint, Residual_i, Residual_j) ==
  IF cfg.Kind_Adjoint = "DISCRETE" THEN res
  ELSE [res EXCEPT ![iPoint] = VSub(@, Residual_i), ![jPoint] = VAdd(@, Residual_j)]

\* lines 1234-1235
Upwind_UpdateConv(res, iPoint, jPoint, Residual_i, Residual_j) ==
  IF discrete THEN res
  ELSE [res EXCEPT ![iPoint] = VSub(@, Residual_i), ![jPoint] = VSub(@, Residual_j)]

\* lines 1238-1243
Upwind_Implicit(iPoint, jPoint, e) ==
  IF implicit /\ ~discrete
    THEN << JacCall("SubtractBlock", iPoint, iPoint, "Jacobian_ii", "Upwind_Residual", e),
            JacCall("SubtractBlock", iPoint, jPoint, "Jacobian_ij", "Upwind_Residual", e),
            JacCall("SubtractBlock", jPoint, iPoint, "Jacobian_ji", "Upwind_Residual", e),
            JacCall("SubtractBlock", jPoint, jPoint, "Jacobian_jj", "Upwind_Residual", e) >>
    ELSE <<>>

\* variant: the added blocks on the two diagonal positions
Upwind_Discrete_Diagonal(iPoint, jPoint, e) ==
  IF cfg.Kind_Upwind # "ROE_2ND"
    THEN << JacCall("AddBlock", iPoint, iPoint, "Jacobian_i", "Upwind_Residual", e),
            JacCall("SubtractBlock", iPoint, jPoint, "Jacobian_i", "Upwind_Residual", e),
            JacCall("SubtractBlock", jPoint, iPoint, "Jacobian_j", "Upwind_Residual", e),
            JacCall("AddBlock", jPoint, jPoint, "Jacobian_j", "Upwind_Residual", e) >>
    ELSE <<>>

\* lines 1159-1166 ("transpose of block positions"); the branch that should
\* include the reconstruction (1167-1230) is empty
Upwind_Discrete(iPoint, jPoint, e) ==
  IF ~high_order_diss
    THEN << JacCall("AddBlock", iPoint, iPoint, "Jacobian_i", "Upwind_Residual", e),
            JacCall("SubtractBlock", iPoint, jPoint, "Jacobian_i", "Upwind_Residual", e),
            JacCall("AddBlock", jPoint, iPoint, "Jacobian_j", "Upwind_Residual", e),
            JacCall("SubtractBlock", jPoint, jPoint, "Jacobian_j", "Upwind_Residual", e) >>
    ELSE <<>>

Upwind_Residual ==
  /\ pc = "Convective_Residual"
  /\ cfg.Kind_ConvNumScheme = "SPACE_UPWIND"
  /\ iEdge <= nEdge
  /\ LET iPoint == Edges[iEdge][1]
         jPoint == Edges[iEdge][2]
         F == UpwindFlux(Solution[iPoint], Solution[jPoint], high_order_diss)
     IN /\ ResConv' = Upwind_UpdateConv(ResConv, iPoint, jPoint, F.res_i, F.res_j)
        /\ JacOps' = JacOps \o (IF discrete THEN Upwind_Discrete(iPoint, jPoint, iEdge)
                                            ELSE Upwind_Implicit(iPoint, jPoint, iEdge))
  /\ iEdge' = IF iEdge = nEdge THEN 1 ELSE iEdge + 1
  /\ pc' = IF iEdge = nEdge THEN AfterConvective ELSE pc
  /\ lastOp' = "Upwind_Residual"
  /\ UNCHANGED <<cfg, sensVars, ExtIter, iRKStep, iMarker, pass, firstRes>>
  /\ UNCHANGED <<solVars, ResVisc, ResSour, Res_TruncError, auxVars>>

(* --------------- CAdjNSSolution::Viscous_Residual (5121-5222) ---------- *)
\* lines 5209-5210
Viscous_UpdateVisc(res, iPoint, jPoint, Residual_i, Residual_j) ==
  [res EXCEPT ![iPoint] = VSub(@, Residual_i), ![jPoint] = VAdd(@, Residual_j)]

\* lines 5212-5217
Viscous_Implicit(iPoint, jPoint, e) ==
  IF implicit
    THEN << JacCall("SubtractBlock", iPoint, iPoint, "Jacobian_ii", "Viscous_Residual", e),
            JacCall("SubtractBlock", iPoint, jPoint, "Jacobian_ij", "Viscous_Residual", e),
            JacCall("AddBlock", jPoint, iPoint, "Jacobian_ji", "Viscous_Residual", e),
            JacCall("AddBlock", jPoint, jPoint, "Jacobian_jj", "Viscous_Residual", e) >>
    ELSE <<>>

Viscous_Residual ==
  /\ pc = "Viscous_Residual"
  /\ dissipation
  /\ iEdge <= nEdge
  /\ LET iPoint == Edges[iEdge][1]
         jPoint == Edges[iEdge][2]
         F == ViscousFlux(Solution[iPoint], Solution[jPoint])
     IN /\ ResVisc' = Viscous_UpdateVisc(ResVisc, iPoint, jPoint, F.res_i, F.res_j)
        /\ JacOps' = JacOps \o Viscous_Implicit(iPoint, jPoint, iEdge)
  /\ iEdge' = IF iEdge = nEdge THEN 1 ELSE iEdge + 1
  /\ pc' = IF iEdge = nEdge THEN "Source_Residual" ELSE pc
  /\ lastOp' = "Viscous_Residual"
  /\ UNCHANGED <<cfg, sensVars, ExtIter, iRKStep, iMarker, pass, firstRes>>
  /\ UNCHANGED <<solVars, ResConv, ResSour, Res_TruncError, auxVars>>

\* line 5128: a stage without dissipation of an explicit run skips the loop
Viscous_Residual_Skip ==
  /\ pc = "Viscous_Residual"
  /\ ~dissipation
  /\ pc' = "Source_Residual"
  /\ lastOp' = "Viscous_Residual"
  /\ UNCHANGED <<cfg, sensVars, ExtIter, iRKStep, iEdge, iMarker, pass, firstRes>>
  /\ UNCHANGED <<solVars, resVars, auxVars, JacOps>>

(* ---------------------- Source_Residual (1249-1368) -------------------- *)
\* line 1309: the axisymmetric term reads the flow solver's scheme
Axisymmetric_implicit == flow_implicit

AfterSource ==
  IF cfg.Unsteady_Simulation \in {"DT_STEPPING_1ST", "DT_STEPPING_2ND"}
    THEN "SetResidual_DualTime" ELSE "Boundary"

\* AddRes_Conv on the owned points, once per enabled term
Source_UpdateConv(res) ==
  LET rot == [p \in Points |->
                IF cfg.Rotating_Frame /\ GetDomain(p)
                  THEN VAdd(res[p], SourceFlux(Solution[p])) ELSE res[p]]
      ts == [p \in Points |->
                IF cfg.Unsteady_Simulation = "TIME_SPECTRAL" /\ GetDomain(p)
                  THEN VAdd(rot[p], VScale(GetVolume(p), GetTimeSpectral_Source(p)))
                  ELSE rot[p]]
  IN [p \in Points |->
        IF cfg.Axisymmetric /\ GetDomain(p)
          THEN VAdd(ts[p], SourceFlux(Solution[p])) ELSE ts[p]]

\* lines 1339-1340: Jacobian.AddBlock(iPoint, iPoint, Jacobian_i)
Source_Implicit ==
  IF cfg.Axisymmetric /\ Axisymmetric_implicit
    THEN [k \in 1..nPointDomain |->
            JacCall("AddBlock", k - 1, k - 1, "Jacobian_i", "Source_Residual", 0)]
    ELSE <<>>

Source_Residual ==
  /\ pc = "Source_Residual"
  /\ ~cfg.Viscous
  /\ ResConv' = Source_UpdateConv(ResConv)
  /\ JacOps' = JacOps \o Source_Implicit
  /\ pc' = AfterSource
  /\ lastOp' = "Source_Residual"
  /\ UNCHANGED <<cfg, sensVars, ExtIter, iRKStep, iEdge, iMarker, pass, firstRes>>
  /\ UNCHANGED <<solVars, ResVisc, ResSour, Res_TruncError, auxVars>>

(* --------------- CAdjNSSolution::Source_Residual (5224-5376) ----------- *)
NS_Source_UpdateConv(res) ==
  [p \in Points |-> IF GetDomain(p) THEN VAdd(res[p], SourceFlux(Solution[p])) ELSE res[p]]

NS_Source_Residual ==
  /\ pc = "Source_Residual"
  /\ cfg.Viscous
  /\ ResConv' = NS_Source_UpdateConv(ResConv)
  /\ pc' = AfterSource
  /\ lastOp' = "Source_Residual"
  /\ UNCHANGED <<cfg, sensVars, ExtIter, iRKStep, iEdge, iMarker, pass, firstRes>>
  /\ UNCHANGED <<solVars, ResVisc, ResSour, Res_TruncError, auxVars, JacOps>>

(* -------------------- SetResidual_DualTime (4746-4804) ----------------- *)
\* line 4752: the dual-time term reads the flow solver's scheme
DualTime_implicit == flow_implicit

\* the stored solutions of the two previous physical time steps
GetSolution_time_n(iPoint) == Const(nVar, 1)
GetSolution_time_n1(iPoint) == Const(nVar, 2)

DualTime_Residual(iPoint) ==
  LET U1 == VScale(GetVolume(iPoint), Solution[iPoint])
      Un == VScale(GetVolume(iPoint), GetSolution_time_n(iPoint))
      Um == VScale(GetVolume(iPoint), GetSolution_time_n1(iPoint))
      R == IF cfg.Unsteady_Simulation = "DT_STEPPING_1ST"
             THEN [k \in 1..nVar |-> (U1[k] - Un[k]) \div GetDelta_UnstTimeND]
             ELSE [k \in 1..nVar |->
                     (3*U1[k] - 4*Un[k] + Um[k]) \div (2*GetDelta_UnstTimeND)]
  IN IF cfg.Incompressible THEN [R EXCEPT ![1] = 0] ELSE R

DualTime_UpdateConv(res) ==
  [p \in Points |-> IF GetDomain(p) THEN VAdd(res[p], DualTime_Residual(p)) ELSE res[p]]

DualTime_Jacobian ==
  IF DualTime_implicit
    THEN [k \in 1..nPointDomain |->
            JacCall("AddBlock", k - 1, k - 1, "Jacobian_i", "SetResidual_DualTime", 0)]
    ELSE <<>>

\* lines 4790-4800: the diagonal of the block Jacobian_i handed to AddBlock;
\* every other entry of the block is zero
DualTime_Jacobian_i(iPoint) ==
  LET d == IF cfg.Unsteady_Simulation = "DT_STEPPING_1ST"
             THEN GetVolume(iPoint) \div GetDelta_UnstTimeND
             ELSE (GetVolume(iPoint) * 3) \div (2 * GetDelta_UnstTimeND)
  IN IF cfg.Incompressible THEN [Const(nVar, d) EXCEPT ![1] = 0] ELSE Const(nVar, d)

SetResidual_DualTime ==
  /\ pc = "SetResidual_DualTime"
  /\ ResConv' = DualTime_UpdateConv(ResConv)
  /\ JacOps' = JacOps \o DualTime_Jacobian
  /\ local' = IF DualTime_implicit
                THEN [Jacobian_i |-> [p \in DomainPoints |-> DualTime_Jacobian_i(p)]]
                ELSE local
  /\ pc' = "Boundary"
  /\ lastOp' = "SetResidual_DualTime"
  /\ UNCHANGED <<cfg, VertexNormal, CSensitivity, Und_Lapl, ExtIter, iRKStep, iEdge, iMarker,
                 pass, firstRes>>
  /\ UNCHANGED <<solVars, ResVisc, ResSour, Res_TruncError, auxVars>>

(* --------------------------- boundary handlers ------------------------- *)
\* how often the vertex loop of marker m visits node p
VertexCount(m, p) ==
  Cardinality({k \in 1..Len(cfg.Markers[m].Vertex) : cfg.Markers[m].Vertex[k] = p})

\* the owned nodes of the marker, in the order of the vertex loop
RECURSIVE OwnedFrom(_, _)
OwnedFrom(verts, k) ==
  IF k > Len(verts) THEN <<>>
  ELSE (IF GetDomain(verts[k]) THEN <<verts[k]>> ELSE <<>>) \o OwnedFrom(verts, k + 1)
OwnedVertices(m) == OwnedFrom(cfg.Markers[m].Vertex, 1)

\* node[iPoint]->SubtractRes_Conv(Residual) for every owned vertex
BC_SubtractRes(res, m, Psi_exterior) ==
  [p \in Points |->
     IF GetDomain(p)
       THEN VSub(res[p], VScale(VertexCount(m, p), BoundaryFlux(Solution[p], Psi_exterior)))
       ELSE res[p]]

\* one call on the diagonal block of every owned vertex
BC_DiagCalls(m, op, blk, src) ==
  [k \in 1..Len(OwnedVertices(m)) |->
     JacCall(op, OwnedVertices(m)[k], OwnedVertices(m)[k], blk, src, 0)]

AfterMarker == IF iMarker = nMarker THEN "Time_Integration" ELSE "Boundary"

\* what every handler leaves alone, and the step to the next marker
BC_Frame(name) ==
  /\ pc' = AfterMarker
  /\ iMarker' = IF iMarker = nMarker THEN 1 ELSE iMarker + 1
  /\ lastOp' = name
  /\ UNCHANGED <<cfg, sensVars, ExtIter, iRKStep, iEdge, pass, firstRes, remote, ForceProj>>

BC_At(kind) == pc = "Boundary" /\ cfg.Markers[iMarker].Boundary = kind

\* a flux boundary: residual subtracted, diagonal block subtracted if implicit
BC_Flux(name, impl) ==
  /\ ResConv' = BC_SubtractRes(ResConv, iMarker, Zero(nVar))
  /\ JacOps' = JacOps \o (IF impl
                            THEN BC_DiagCalls(iMarker, "SubtractBlock", "Jacobian_ii", name)
                            ELSE <<>>)
  /\ BC_Frame(name)
  /\ UNCHANGED <<Solution, Solution_Old, ResVisc, ResSour, Res_TruncError, ObjFuncSource>>

(* BC_Sym_Plane (2966-3194) *)
Sym_Plane_implicit == implicit
BC_Sym_Plane == BC_At("SYMMETRY_PLANE") /\ BC_Flux("BC_Sym_Plane", Sym_Plane_implicit)

(* BC_Inlet (3653-3970) *)
Inlet_implicit == implicit
BC_Inlet == BC_At("INLET_FLOW") /\ BC_Flux("BC_Inlet", Inlet_implicit)

(* BC_Outlet (3972-4243): line 3986 reads the flow solver's scheme *)
Outlet_implicit == flow_implicit
BC_Outlet == BC_At("OUTLET_FLOW") /\ BC_Flux("BC_Outlet", Outlet_implicit)

(* BC_NacelleInflow (4245-4369): line 4255 reads the flow solver's scheme *)
NacelleInflow_implicit == flow_implicit
BC_NacelleInflow ==
  BC_At("NACELLE_INFLOW") /\ BC_Flux("BC_NacelleInflow", NacelleInflow_implicit)

(* BC_NacelleExhaust (4371-4549) *)
NacelleExhaust_implicit == implicit
BC_NacelleExhaust ==
  BC_At("NACELLE_EXHAUST") /\ BC_Flux("BC_NacelleExhaust", NacelleExhaust_implicit)

(* BC_Far_Field (3542-3651) *)
Far_Field_implicit == implicit
\* lines 3633-3646
Far_Field_Jacobian(m) ==
  IF discrete THEN BC_DiagCalls(m, "SubtractBlock", "Jacobian_i", "BC_Far_Field")
  ELSE IF Far_Field_implicit
         THEN BC_DiagCalls(m, "SubtractBlock", "Jacobian_ii", "BC_Far_Field")
         ELSE <<>>

BC_Far_Field ==
  /\ BC_At("FAR_FIELD")
  /\ ResConv' = IF discrete THEN ResConv ELSE BC_SubtractRes(ResConv, iMarker, Zero(nVar))
  /\ JacOps' = JacOps \o Far_Field_Jacobian(iMarker)
  /\ BC_Frame("BC_Far_Field")
  /\ UNCHANGED <<Solution, Solution_Old, ResVisc, ResSour, Res_TruncError, ObjFuncSource>>

(* BC_Euler_Wall (2671-2964), compressible branch *)
Euler_Wall_implicit == implicit
\* lines 2852-2901 and 2953
Euler_Wall_Jacobian(m) ==
  IF discrete THEN BC_DiagCalls(m, "AddBlock", "Jacobian_i", "BC_Euler_Wall")
  ELSE IF Euler_Wall_implicit
         THEN BC_DiagCalls(m, "SubtractBlock", "Jacobian_ii", "BC_Euler_Wall")
         ELSE <<>>

\* line 2954: the source of the objective, in the direction of the wall normal
Euler_Wall_ObjFuncSource(src, m) ==
  [p \in Points |->
     IF discrete /\ GetDomain(p) /\ VertexCount(m, p) > 0
       THEN [k \in 1..nVar |-> IF k \in 2..(nDim + 1) THEN GetNormal(p)[k - 1] ELSE 0]
       ELSE src[p]]

\* lines 2709-2711: Area and UnitaryNormal = -Normal/Area
Euler_Wall_UnitaryNormal(p) ==
  LET Normal == GetNormal(p)
      Area == Sqrt(SumOver([d \in 1..nDim |-> Normal[d] * Normal[d]], 1..nDim))
  IN [d \in 1..nDim |-> (0 - Normal[d]) \div Area]

\* lines 2782-2799: bcn and phin of the state Psi at the vertex, with the extra
\* term of a rotating frame (ProjRotVel = -GetRotFlux()/Area, the flux of the
\* vertex being 1 on these meshes).  Grid movement (2801-2808) adds a term of
\* the same form; the configurations have none.  d is read for a force
\* objective (lines 2706-2708), the only kind the configurations have.
Euler_Wall_Projections(Psi, p) ==
  LET UnitaryNormal == Euler_Wall_UnitaryNormal(p)
      d == ForceProj[p]
      ProjRotVel == 0 - 1
      rot == IF cfg.Rotating_Frame THEN Psi[nVar] * ProjRotVel ELSE 0
  IN [bcn |-> SumOver([iDim \in 1..nDim |-> d[iDim] * UnitaryNormal[iDim]], 1..nDim),
      phin |-> SumOver([iDim \in 1..nDim |-> Psi[iDim + 1] * UnitaryNormal[iDim]], 1..nDim)
                 - rot]

\* variant: the copy of the adjoint state without the boundary condition
Euler_Wall_Psi_Copy(sol, p) == sol[p]

\* lines 2697-2700 and 2811-2812: the copy Psi of the node's adjoint state,
\* and Psi[iDim+1] -= (phin - bcn)*UnitaryNormal[iDim] on the copy
Euler_Wall_Psi(sol, p) ==
  LET Psi == sol[p]
      pr == Euler_Wall_Projections(Psi, p)
      UnitaryNormal == Euler_Wall_UnitaryNormal(p)
  IN [k \in 1..nVar |->
        IF k \in 2..(nDim + 1)
          THEN Psi[k] - (pr.phin - pr.bcn) * UnitaryNormal[k - 1]
          ELSE Psi[k]]

\* lines 2814-2851 and 2905: the flux of the wall, computed from the copy, is
\* subtracted at every owned vertex
Euler_Wall_SubtractRes(res, m) ==
  [p \in Points |->
     IF GetDomain(p)
       THEN VSub(res[p], VScale(VertexCount(m, p),
                                BoundaryFlux(Euler_Wall_Psi(Solution, p), Zero(nVar))))
       ELSE res[p]]

BC_Euler_Wall ==
  /\ BC_At("EULER_WALL")
  /\ ResConv' = IF discrete THEN ResConv ELSE Euler_Wall_SubtractRes(ResConv, iMarker)
  /\ JacOps' = JacOps \o Euler_Wall_Jacobian(iMarker)
  /\ ObjFuncSource' = Euler_Wall_ObjFuncSource(ObjFuncSource, iMarker)
  /\ BC_Frame("BC_Euler_Wall")
  /\ UNCHANGED <<Solution, Solution_Old, ResVisc, ResSour, Res_TruncError>>

(* BC_Interface_Boundary (3196-3330), BC_NearField_Boundary (3332-3540) *)
\* lines 3241 and 3409: the flux between the node and its donor point
Coupling_SubtractRes(res, m) ==
  [p \in Points |->
     IF GetDomain(p)
       THEN VSub(res[p], VScale(VertexCount(m, p),
                                BoundaryFlux(Solution[p], Solution[GetDonorPoint(p)])))
       ELSE res[p]]

BC_Interface_Boundary ==
  /\ BC_At("INTERFACE_BOUNDARY")
  /\ ResConv' = Coupling_SubtractRes(ResConv, iMarker)
  /\ BC_Frame("BC_Interface_Boundary")
  /\ UNCHANGED <<Solution, Solution_Old, ResVisc, ResSour, Res_TruncError,
                 ObjFuncSource, JacOps>>

BC_NearField_Boundary ==
  /\ BC_At("NEARFIELD_BOUNDARY")
  /\ ResConv' = Coupling_SubtractRes(ResConv, iMarker)
  /\ BC_Frame("BC_NearField_Boundary")
  /\ UNCHANGED <<Solution, Solution_Old, ResVisc, ResSour, Res_TruncError,
                 ObjFuncSource, JacOps>>

\* the driver calls no handler for a SEND_RECEIVE marker
BC_Send_Receive ==
  /\ BC_At("SEND_RECEIVE")
  /\ BC_Frame(lastOp)
  /\ UNCHANGED <<Solution, Solution_Old, resVars, ObjFuncSource, JacOps>>

(* BC_FWH (4551-4577): every vertex of the marker, owned or not *)
FWH_implicit == implicit

FWH_SetSolution(sol, m) ==
  [p \in Points |-> IF VertexCount(m, p) > 0 THEN GetIntBoundary_Jump(p) ELSE sol[p]]

\* variant: the accumulator left as it is
FWH_Res_Keep(res, m) == res

\* lines 4564-4567: Set_ResConv_Zero and its three siblings
FWH_Res_Zero(res, m) ==
  [p \in Points |-> IF VertexCount(m, p) > 0 THEN Zero(nVar) ELSE res[p]]

\* lines 4569-4574: one DeleteValsRowi per variable of every vertex
FWH_Jacobian(m) ==
  IF FWH_implicit
    THEN [k \in 1..(Len(cfg.Markers[m].Vertex) * nVar) |->
            JacCall("DeleteValsRowi", cfg.Markers[m].Vertex[((k - 1) \div nVar) + 1],
                    (k - 1) % nVar, "row", "BC_FWH", 0)]
    ELSE <<>>

BC_FWH ==
  /\ BC_At("FWH_SURFACE")
  /\ Solution' = FWH_SetSolution(Solution, iMarker)
  /\ Solution_Old' = FWH_SetSolution(Solution_Old, iMarker)
  /\ ResConv' = FWH_Res_Zero(ResConv, iMarker)
  /\ ResSour' = FWH_Res_Zero(ResSour, iMarker)
  /\ ResVisc' = FWH_Res_Zero(ResVisc, iMarker)
  /\ Res_TruncError' = FWH_Res_Zero(Res_TruncError, iMarker)
  /\ JacOps' = JacOps \o FWH_Jacobian(iMarker)
  /\ BC_Frame("BC_FWH")
  /\ UNCHANGED ObjFuncSource

(* CAdjNSSolution::BC_NS_Wall (5493-5596) *)
NS_Wall_implicit == implicit
\* the increment added to every row at the first external iteration
EPS == 1
\* l1psi*Gamma_Minus_One, in units of Gamma_Minus_One
TimesGamma_Minus_One(x) == x

\* the vertices the handler acts on: line 5513
NS_Wall_Node(m, p) == GetDomain(p) /\ VertexCount(m, p) > 0

\* variant: the old solution left as it is
NS_Wall_SetSolution_Old_None(old, m) == old

\* lines 5524-5525: SetSolution_Old(iDim+1, d[iDim])
NS_Wall_SetSolution_Old(old, m) ==
  [p \in Points |->
     IF NS_Wall_Node(m, p)
       THEN [k \in 1..nVar |-> IF k \in 2..(nDim + 1) THEN ForceProj[p][k - 1] ELSE old[p][k]]
       ELSE old[p]]

\* variant: the accumulator left as it is
NS_Wall_KeepMomentum(res, m) == res

\* lines 5526-5528: the momentum rows of an accumulator are cleared
NS_Wall_ClearMomentum(res, m) ==
  [p \in Points |->
     IF NS_Wall_Node(m, p)
       THEN [k \in 1..nVar |-> IF k \in 2..(nDim + 1) THEN 0 ELSE res[p][k]]
       ELSE res[p]]

\* lines 5532-5536 and 5549-5553, after the momentum rows were cleared
NS_Wall_ResConv(res, m) ==
  LET cleared == NS_Wall_ClearMomentum(res, m)
      l1psi(p) == SumOver([d \in 1..nDim |-> GetNormal(p)[d] * ForceProj[p][d]], 1..nDim)
      first == [p \in Points |->
                  IF NS_Wall_Node(m, p) /\ ExtIter = 0
                    THEN VAdd(cleared[p], Const(nVar, EPS)) ELSE cleared[p]]
  IN [p \in Points |->
        IF NS_Wall_Node(m, p) /\ ~cfg.Incompressible
          THEN [first[p] EXCEPT ![nVar] = @ + TimesGamma_Minus_One(l1psi(p))]
          ELSE first[p]]

\* lines 5539-5544: the velocity rows of every owned wall vertex
NS_Wall_Jacobian(m) ==
  IF NS_Wall_implicit
    THEN [k \in 1..(Len(OwnedVertices(m)) * nDim) |->
            JacCall("DeleteValsRowi", OwnedVertices(m)[((k - 1) \div nDim) + 1],
                    ((k - 1) % nDim) + 1, "row", "BC_NS_Wall", 0)]
    ELSE <<>>

BC_NS_Wall ==
  /\ BC_At("NO_SLIP_WALL")
  /\ Solution_Old' = NS_Wall_SetSolution_Old(Solution_Old, iMarker)
  /\ ResConv' = NS_Wall_ResConv(ResConv, iMarker)
  /\ ResVisc' = NS_Wall_ClearMomentum(ResVisc, iMarker)
  /\ Res_TruncError' = NS_Wall_ClearMomentum(Res_TruncError, iMarker)
  /\ JacOps' = JacOps \o NS_Wall_Jacobian(iMarker)
  /\ BC_Frame("BC_NS_Wall")
  /\ UNCHANGED <<Solution, ResSour, ObjFuncSource>>

(* --------------------------- time integration -------------------------- *)
\* the exchange as the receiving process sees it: every vertex of a receive
\* marker takes the vector sent by the neighbour, momentum rotated
SetSolution_MPI(sol, Buffer_Receive_U) ==
  [p \in Points |->
     IF \E m \in 1..nMarker : /\ cfg.Markers[m].Boundary = "SEND_RECEIVE"
                              /\ cfg.Markers[m].SendRecv < 0
                              /\ VertexCount(m, p) > 0
       THEN newSolution(Buffer_Receive_U, nDim, GetRotation_Type(p)) ELSE sol[p]]

\* the neighbour process advances its own copy of the halo point
RemoteUpdate(r) == VAdd(r, Const(nVar, 1))

\* CVariable::GetResidual(): the residual summed over the accumulators
GetResidual(iPoint) == VAdd(VAdd(ResConv[iPoint], ResVisc[iPoint]), ResSour[iPoint])
\* the sum the Euler integrators build themselves (lines 1786 and 1826)
TotalRes(iPoint) == VAdd(GetResidual(iPoint), Res_TruncError[iPoint])

\* the linear solver, for a matrix that is Volume/Delta_Time on the diagonal
LinearSolve(rhs) ==
  [p \in Points |-> [k \in 1..nVar |-> (rhs[p][k] * GetDelta_Time(p)) \div GetVolume(p)]]

\* the driver's bookkeeping after an integration step
NextStage(name) ==
  LET last == iRKStep + 1 >= nRKStep IN
  /\ iRKStep' = IF last THEN 0 ELSE iRKStep + 1
  /\ ExtIter' = IF last THEN ExtIter + 1 ELSE ExtIter
  /\ pc' = IF last /\ ExtIter + 1 >= MaxExtIter THEN "done" ELSE "Preprocessing"
  /\ lastOp' = name
  /\ pass' = 1
  /\ remote' = RemoteUpdate(remote)
  /\ UNCHANGED <<cfg, sensVars, iEdge, iMarker, firstRes, Solution_Old, resVars, auxVars>>

(* ExplicitRK_Iteration (1727-1763) *)
\* variant: the update without the stage coefficient
ExplicitRK_Update_NoAlpha(sol) ==
  [p \in Points |->
     IF GetDomain(p)
       THEN VSub(sol[p], [k \in 1..nVar |->
              ((GetResidual(p)[k] + Res_TruncError[p][k]) * GetDelta_Time(p))
                 \div GetVolume(p)])
       ELSE sol[p]]

ExplicitRK_Update(sol) ==
  [p \in Points |->
     IF GetDomain(p)
       THEN VSub(sol[p], [k \in 1..nVar |->
              ((GetResidual(p)[k] + Res_TruncError[p][k]) * GetDelta_Time(p)
                 * Get_Alpha_RKStep(iRKStep)) \div GetVolume(p)])
       ELSE sol[p]]

ExplicitRK_Iteration ==
  /\ pc = "Time_Integration"
  /\ ~discrete
  /\ cfg.Kind_TimeIntScheme_AdjFlow = "RUNGE_KUTTA_EXPLICIT"
  /\ Solution' = SetSolution_MPI(ExplicitRK_Update(Solution), RemoteUpdate(remote))
  /\ JacOps' = JacOps
  /\ NextStage("ExplicitRK_Iteration")

(* ExplicitEuler_Iteration (1765-1800) *)
ExplicitEuler_Update(sol) ==
  [p \in Points |->
     IF GetDomain(p)
       THEN VSub(sol[p], [k \in 1..nVar |->
              (TotalRes(p)[k] * GetDelta_Time(p)) \div GetVolume(p)])
       ELSE sol[p]]

ExplicitEuler_Iteration ==
  /\ pc = "Time_Integration"
  /\ ~discrete
  /\ cfg.Kind_TimeIntScheme_AdjFlow = "EULER_EXPLICIT"
  /\ Solution' = SetSolution_MPI(ExplicitEuler_Update(Solution), RemoteUpdate(remote))
  /\ JacOps' = JacOps
  /\ NextStage("ExplicitEuler_Iteration")

(* ImplicitEuler_Iteration (1802-1907) *)
\* variant: the right-hand side without the truncation error
ImplicitEuler_rhs_NoTrunc ==
  [p \in Points |-> IF GetDomain(p) THEN VNeg(GetResidual(p)) ELSE Zero(nVar)]

\* rhs = -Res on the owned points, zero on the halo points
ImplicitEuler_rhs ==
  [p \in Points |-> IF GetDomain(p) THEN VNeg(TotalRes(p)) ELSE Zero(nVar)]

\* lines 1836 and 1845: the initial guess, zero on owned and halo points
ImplicitEuler_xsol == [p \in Points |-> Zero(nVar)]

ImplicitEuler_Update(sol) ==
  [p \in Points |-> IF GetDomain(p) THEN VAdd(sol[p], LinearSolve(ImplicitEuler_rhs)[p])
                                    ELSE sol[p]]

\* line 1823: Jacobian.AddVal2Diag(iPoint, Vol/Delta_Time)
ImplicitEuler_Diag ==
  [k \in 1..nPointDomain |->
     JacCall("AddVal2Diag", k - 1, k - 1, "Delta", "ImplicitEuler_Iteration", 0)]

ImplicitEuler_Iteration ==
  /\ pc = "Time_Integration"
  /\ ~discrete
  /\ cfg.Kind_TimeIntScheme_AdjFlow = "EULER_IMPLICIT"
  /\ Solution' = SetSolution_MPI(ImplicitEuler_Update(Solution), RemoteUpdate(remote))
  /\ JacOps' = JacOps \o ImplicitEuler_Diag
  /\ NextStage("ImplicitEuler_Iteration")

(* Solve_LinearSystem (1909-2051): the function ends after the update loop *)
Solve_rhs == [p \in Points |-> IF GetDomain(p) THEN ObjFuncSource[p] ELSE Zero(nVar)]

\* variant: the solved vector added to the state
Solve_Update_Increment(sol) ==
  [p \in Points |-> IF GetDomain(p) THEN VAdd(sol[p], LinearSolve(Solve_rhs)[p]) ELSE sol[p]]

\* lines 2047-2049: SetSolution(iVar, xsol) on the owned points
Solve_Update(sol) ==
  [p \in Points |-> IF GetDomain(p) THEN LinearSolve(Solve_rhs)[p] ELSE sol[p]]

\* the exchange this function performs before it returns: none
Solve_Exchange(sol, Buffer_Receive_U) == sol

Solve_LinearSystem ==
  /\ pc = "Time_Integration"
  /\ discrete
  /\ Solution' = Solve_Exchange(Solve_Update(Solution), RemoteUpdate(remote))
  /\ JacOps' = JacOps
  /\ NextStage("Solve_LinearSystem")

\* the assembly is run a second time on the state the first run left
Reassemble ==
  /\ pc = "Time_Integration"
  /\ pass = 1
  /\ pass' = 2
  /\ firstRes' = [firstRes EXCEPT !.res = <<ResConv, ResVisc, ResSour>>]
  /\ pc' = "Preprocessing"
  /\ UNCHANGED <<cfg, sensVars, lastOp, ExtIter, iRKStep, iEdge, iMarker>>
  /\ UNCHANGED <<solVars, resVars, auxVars, JacOps>>

(* ------------------------------ the run -------------------------------- *)
Next ==
  \/ SetForceProj_Vector
  \/ Preprocessing
  \/ Centered_Residual
  \/ Upwind_Residual
  \/ Viscous_Residual
  \/ Viscous_Residual_Skip
  \/ Source_Residual
  \/ NS_Source_Residual
  \/ SetResidual_DualTime
  \/ BC_Euler_Wall
  \/ BC_NS_Wall
  \/ BC_Sym_Plane
  \/ BC_Far_Field
  \/ BC_Inlet
  \/ BC_Outlet
  \/ BC_NacelleInflow
  \/ BC_NacelleExhaust
  \/ BC_Interface_Boundary
  \/ BC_NearField_Boundary
  \/ BC_FWH
  \/ BC_Send_Receive
  \/ ExplicitRK_Iteration
  \/ ExplicitEuler_Iteration
  \/ ImplicitEuler_Iteration
  \/ Solve_LinearSystem
  \/ Reassemble

Spec == Init /\ [][Next]_vars

(* ======================= properties of the run ========================= *)
IsEdgeLoop(name) == pc = name /\ iEdge \in 1..nEdge
Node0 == Edges[iEdge][1]
Node1 == Edges[iEdge][2]

(* C1, as stated: in the centered loop, the upwind loop in continuous mode  *)
(* and the viscous loop, every edge step subtracts the contribution of     *)
(* node 0 from node 0's accumulator and adds the contribution of node 1 to *)
(* node 1's accumulator.                                                   *)
C1_Node1Added ==
  [][ /\ (IsEdgeLoop("Convective_Residual") /\ cfg.Kind_ConvNumScheme = "SPACE_CENTERED")
         => LET F == CenteredFlux(Solution[Node0], Solution[Node1])
            IN /\ ResConv'[Node0] = VSub(ResConv[Node0], F.conv_i)
               /\ ResConv'[Node1] = VAdd(ResConv[Node1], F.conv_j)
      /\ (IsEdgeLoop("Convective_Residual") /\ cfg.Kind_ConvNumScheme = "SPACE_UPWIND"
            /\ ~discrete)
         => LET F == UpwindFlux(Solution[Node0], Solution[Node1], high_order_diss)
            IN /\ ResConv'[Node0] = VSub(ResConv[Node0], F.res_i)
               /\ ResConv'[Node1] = VAdd(ResConv[Node1], F.res_j)
      /\ (IsEdgeLoop("Viscous_Residual") /\ dissipation)
         => LET F == ViscousFlux(Solution[Node0], Solution[Node1])
            IN /\ ResVisc'[Node0] = VSub(ResVisc[Node0], F.res_i)
               /\ ResVisc'[Node1] = VAdd(ResVisc[Node1], F.res_j) ]_vars

(* C1, amended: the centered loop and the upwind loop in continuous mode    *)
(* subtract both contributions, that of node 0 from node 0 and that of     *)
(* node 1 from node 1; only the viscous loop subtracts at node 0 and adds  *)
(* at node 1.                                                              *)
C1_EdgeSigns ==
  [][ /\ (IsEdgeLoop("Convective_Residual") /\ cfg.Kind_ConvNumScheme = "SPACE_CENTERED")
         => LET F == CenteredFlux(Solution[Node0], Solution[Node1])
            IN /\ ResConv'[Node0] = VSub(ResConv[Node0], F.conv_i)
               /\ ResConv'[Node1] = VSub(ResConv[Node1], F.conv_j)
      /\ (IsEdgeLoop("Convective_Residual") /\ cfg.Kind_ConvNumScheme = "SPACE_UPWIND"
            /\ ~discrete)
         => LET F == UpwindFlux(Solution[Node0], Solution[Node1], high_order_diss)
            IN /\ ResConv'[Node0] = VSub(ResConv[Node0], F.res_i)
               /\ ResConv'[Node1] = VSub(ResConv[Node1], F.res_j)
      /\ (IsEdgeLoop("Viscous_Residual") /\ dissipation)
         => LET F == ViscousFlux(Solution[Node0], Solution[Node1])
            IN /\ ResVisc'[Node0] = VSub(ResVisc[Node0], F.res_i)
               /\ ResVisc'[Node1] = VAdd(ResVisc[Node1], F.res_j) ]_vars

\* the first centered edge has run: node 1 holds minus its (non-zero) contribution
C1_Witness ==
  /\ lastOp = "Centered_Residual" /\ pc = "Convective_Residual" /\ iEdge = 2
  /\ pass = 1
  /\ LET F == CenteredFlux(Solution[0], Solution[1])
     IN F.conv_j # Zero(nVar) /\ ResConv[1] = VNeg(F.conv_j)

\* the calls the edge loops have made since the matrix was last zeroed
EdgeCalls == {k \in 1..Len(JacOps) : JacOps[k].edge > 0}

(* C2, as stated: every block produced for an edge is subtracted at its     *)
(* position; the only added blocks are, in discrete-adjoint mode, those at *)
(* the diagonal positions (node0,node0) and (node1,node1).                 *)
C2_OnlyDiagonalAdded ==
  \A k \in EdgeCalls :
    \/ JacOps[k].op = "SubtractBlock"
    \/ JacOps[k].op = "AddBlock" /\ discrete /\ JacOps[k].row = JacOps[k].col

(* C2, amended: every block produced for an edge is subtracted, except that *)
(* the discrete-adjoint first-order upwind loop adds the two blocks of      *)
(* column node0, (node0,node0) and (node1,node0), and the implicit viscous  *)
(* loop adds the two blocks of row node1, (node1,node0) and (node1,node1).  *)
C2_AddedBlocks ==
  \A k \in EdgeCalls :
    LET c == JacOps[k]
        e == Edges[c.edge]
    IN /\ c.op \in {"AddBlock", "SubtractBlock"}
       /\ c.op = "AddBlock" <=>
            \/ c.src = "Upwind_Residual" /\ discrete /\ c.col = e[1]
            \/ c.src = "Viscous_Residual" /\ c.row = e[2]

\* a discrete upwind edge has added the off-diagonal block (node1,node0)
C2_Witness ==
  \E k \in EdgeCalls :
    /\ JacOps[k].op = "AddBlock" /\ JacOps[k].src = "Upwind_Residual"
    /\ JacOps[k].row = Edges[JacOps[k].edge][2]
    /\ JacOps[k].col = Edges[JacOps[k].edge][1]

\* the convective calls of edge e on the position (row, col)
ConvCalls(e, row, col) ==
  {k \in 1..Len(JacOps) :
     /\ JacOps[k].src \in {"Centered_Residual", "Upwind_Residual"}
     /\ JacOps[k].edge = e /\ JacOps[k].row = row /\ JacOps[k].col = col}

(* C3, as stated: in an iteration that uses the Jacobian (implicit or       *)
(* discrete), once the convective edge loop is done every edge (i,j) has    *)
(* had exactly one block update on each of (i,i), (i,j), (j,i), (j,j),      *)
(* whichever convective scheme is selected.                                *)
C3_FourBlocksPerEdge ==
  (/\ lastOp \in {"Centered_Residual", "Upwind_Residual"}
   /\ pc # "Convective_Residual"
   /\ (implicit \/ discrete))
  => \A e \in 1..nEdge : \A r \in {1, 2} : \A c \in {1, 2} :
       Cardinality(ConvCalls(e, Edges[e][r], Edges[e][c])) = 1

\* the nodes of the no-slip wall markers
NS_Wall_Vertices ==
  {p \in Points : \E m \in 1..nMarker :
     cfg.Markers[m].Boundary = "NO_SLIP_WALL" /\ VertexCount(m, p) > 0}
Momentum(v) == [d \in 1..nDim |-> v[d + 1]]

(* C4, as stated: after BC_NS_Wall, at every node of the wall marker the    *)
(* momentum components of the old adjoint solution equal the node's        *)
(* force-projection vector.                                                *)
C4_EveryWallNode ==
  lastOp = "BC_NS_Wall"
    => \A p \in NS_Wall_Vertices : Momentum(Solution_Old[p]) = ForceProj[p]

(* C4, amended: after BC_NS_Wall, at every wall node owned by this process  *)
(* the momentum components of the old adjoint solution equal the node's    *)
(* force-projection vector; a halo node of the marker is left untouched.   *)
C4_OwnedWallNodes ==
  lastOp = "BC_NS_Wall"
    => \A p \in NS_Wall_Vertices :
         GetDomain(p) => Momentum(Solution_Old[p]) = ForceProj[p]

\* the handler has run over a marker with an owned node whose momentum
\* differed from the vector and a halo node that still differs
C4_Witness ==
  /\ lastOp = "BC_NS_Wall"
  /\ \E p \in NS_Wall_Vertices :
       /\ GetDomain(p) /\ ForceProj[p] # Zero(nDim)
       /\ Momentum(Solution[p]) # ForceProj[p]
       /\ Momentum(Solution_Old[p]) = ForceProj[p]
  /\ \E p \in NS_Wall_Vertices : ~GetDomain(p)

Integrators == {"ExplicitRK_Iteration", "ExplicitEuler_Iteration",
                "ImplicitEuler_Iteration", "Solve_LinearSystem"}

(* C5, as stated: each of the four operations that update the adjoint state *)
(* of the owned nodes exchanges the halo values before it returns: when it *)
(* has returned, the halo point holds the value its owner has just         *)
(* computed (momentum rotated by the periodic transformation).             *)
C5_HaloExchanged ==
  lastOp \in Integrators => Solution[HaloPoint] = newSolution(remote, nDim, GetRotation_Type(HaloPoint))

AllZero(res) == \A p \in Points : res[p] = Zero(nVar)

(* C6, as stated: after Preprocessing, for any Runge-Kutta stage and any    *)
(* scheme, the convective, viscous and source accumulators of every node,  *)
(* owned or halo, are zero in all components.                              *)
C6_AllAccumulatorsZero ==
  lastOp = "Preprocessing" => AllZero(ResConv) /\ AllZero(ResVisc) /\ AllZero(ResSour)

(* C6, amended: after Preprocessing the convective and source accumulators  *)
(* of every node are zero; the viscous accumulator is zero if the stage    *)
(* has a non-zero dissipation coefficient or the integration is implicit,  *)
(* and otherwise keeps the value of the previous stage.                    *)
C6_ZeroedAccumulators ==
  lastOp = "Preprocessing"
    => /\ AllZero(ResConv)
       /\ AllZero(ResSour)
       /\ ((Get_Beta_RKStep(iRKStep) # 0 \/ implicit) => AllZero(ResVisc))

\* the second Runge-Kutta stage starts: the convective accumulator has been
\* cleared, the dissipation of the first stage is still there
C6_Witness ==
  /\ lastOp = "Preprocessing" /\ iRKStep = 1
  /\ AllZero(ResConv)
  /\ ~AllZero(ResVisc)

(* C7, as stated: with explicit adjoint time integration and a continuous   *)
(* adjoint, no operation of an iteration adds to, subtracts from or        *)
(* deletes rows of the sparse matrix.                                      *)
C7_ExplicitLeavesJacobian ==
  (~implicit /\ ~discrete) => JacOps = <<>>

\* the adjoint state of every node of an FWH surface equals its jump vector
FWH_OnJump(sol) ==
  \A m \in 1..nMarker : cfg.Markers[m].Boundary = "FWH_SURFACE"
    => \A k \in 1..Len(cfg.Markers[m].Vertex) :
         sol[cfg.Markers[m].Vertex[k]] = GetIntBoundary_Jump(cfg.Markers[m].Vertex[k])

(* C8, as stated: Preprocessing followed by the complete assembly, run      *)
(* twice in a row with no integration step in between, leaves the same     *)
(* residual accumulators at every node after the second run as after the   *)
(* first.                                                                  *)
C8_SameResiduals ==
  (pc = "Time_Integration" /\ pass = 2)
    => <<ResConv, ResVisc, ResSour>> = firstRes.res

(* C8, amended: the second run reproduces the accumulators of the first     *)
(* provided the adjoint state of every node of an FWH surface equalled the *)
(* node's jump vector before the first run (in particular when there is no *)
(* FWH surface); BC_FWH overwrites the state the edge loop reads.          *)
C8_SameResidualsOnJump ==
  (pc = "Time_Integration" /\ pass = 2 /\ FWH_OnJump(firstRes.sol))
    => <<ResConv, ResVisc, ResSour>> = firstRes.res

\* a second run over an FWH surface whose node started on its jump vector,
\* with accumulators that are not zero
C8_Witness ==
  /\ pc = "Time_Integration" /\ pass = 2
  /\ \E m \in 1..nMarker : cfg.Markers[m].Boundary = "FWH_SURFACE"
  /\ FWH_OnJump(firstRes.sol)
  /\ ~AllZero(ResConv)
  /\ <<ResConv, ResVisc, ResSour>> = firstRes.res

(* C9: on every step of the convective edge loop, what is applied to node 1 *)
(* is the negation of what is applied to node 0, and so, while only the    *)
(* edge loop has run on the mesh (a closed chain of edges), the convective *)
(* residuals summed over all nodes are zero in every component.            *)
C9_ConvectiveSumZero ==
  /\ [](lastOp \in {"Preprocessing", "Centered_Residual", "Upwind_Residual"}
          => \A k \in 1..nVar : SumOver([p \in Points |-> ResConv[p][k]], Points) = 0)
  /\ [][IsEdgeLoop("Convective_Residual")
          => VSub(ResConv'[Node1], ResConv[Node1])
               = VNeg(VSub(ResConv'[Node0], ResConv[Node0]))]_vars

\* the convective loop is done and has left non-zero residuals
C9_Witness ==
  /\ lastOp \in {"Centered_Residual", "Upwind_Residual"}
  /\ pc # "Convective_Residual"
  /\ ResConv[0] # Zero(nVar) /\ ResConv[HaloPoint] # Zero(nVar)

(* -------------- the force projection alone, in 2-D and 3-D ------------- *)
InitForce ==
  \E nd \in {2, 3}, obj \in ObjFuncs, aoa \in {0, 90}, monWall \in BOOLEAN,
     mon2 \in BOOLEAN :
    InitState(Config(nd, obj, aoa, "RUNGE_KUTTA_EXPLICIT", "RUNGE_KUTTA_EXPLICIT",
                     "CONTINUOUS", <<"SPACE_CENTERED", "NONE">>, FALSE,
                     <<"STEADY", FALSE, FALSE>>,
                     MarkersOf("EULER_WALL", monWall, "FAR_FIELD", mon2)), 1)

NextForce ==
  \/ SetForceProj_Vector
  \/ SetForceProj_Vector_Diagnostic
  \/ KeyPressed_Exit

SpecForce == InitForce /\ [][NextForce]_vars

(* C10, as stated: a call of SetForceProj_Vector for a 2-D case with an     *)
(* objective that requires 3-D reports the error and terminates; the call  *)
(* never returns normally.                                                 *)
C10_NeverReturns ==
  FatalIn2D => lastOp # "SetForceProj_Vector"

(* =================== construction and start-up (28-317) ================ *)
\* geometry->node[iPoint]->GetGlobalIndex() and GetGlobal_nPointDomain(): the
\* owned points carry the global indices nPointDomain-1 .. 0, and one more
\* global point is owned by the neighbour process
GetGlobalIndex(iPoint) == nPointDomain - 1 - iPoint
GetGlobal_nPointDomain == nPointDomain + 1

\* one data line of the restart file: <global_index> <Solution[0]> ...
RestartLine(g, n) == [index |-> g, values |-> [k \in 1..n |-> 10 * g + k]]
\* the files a run may find: none, the lines in ascending global index, the
\* same lines in descending order, and an ascending file that ends early
RestartFile(lines) == [exists |-> TRUE, lines |-> lines]
NoRestartFile == [exists |-> FALSE, lines |-> <<>>]
RestartFiles(n) ==
  { NoRestartFile,
    RestartFile([k \in 1..GetGlobal_nPointDomain |-> RestartLine(k - 1, n)]),
    RestartFile([k \in 1..GetGlobal_nPointDomain |->
                   RestartLine(GetGlobal_nPointDomain - k, n)]),
    RestartFile([k \in 1..(GetGlobal_nPointDomain - 2) |-> RestartLine(k - 1, n)]) }

\* the table of a mesh whose local and global numbering coincide
Global2Local_Identity ==
  [g \in 0..(GetGlobal_nPointDomain - 1) |-> IF g < nPointDomain THEN g ELSE -1]
\* lines 203-213: -1 by default, the local index for the owned points
Global2Local ==
  [g \in 0..(GetGlobal_nPointDomain - 1) |->
     IF \E p \in DomainPoints : GetGlobalIndex(p) = g
       THEN CHOOSE p \in DomainPoints : GetGlobalIndex(p) = g
       ELSE -1]

\* lines 219-239: the line counter iPoint_Global, not the index read from the
\* line, selects the node; a node no line selects is never instantiated (<<>>)
RECURSIVE ReadRestart(_, _, _)
ReadRestart(file, k, nodes) ==
  IF k > Len(file) THEN nodes
  ELSE LET iPoint_Global == k - 1
           iPoint_Local == Global2Local[iPoint_Global]
       IN ReadRestart(file, k + 1,
            IF iPoint_Local >= 0 THEN [nodes EXCEPT ![iPoint_Local] = file[k].values]
                                 ELSE nodes)

\* lines 245-248: the halo nodes take the buffer of the last line read
RestartHalo(file, n) == IF Len(file) = 0 THEN Zero(n) ELSE file[Len(file)].values

Constructor_Nodes(file) ==
  LET owned == ReadRestart(file, 1, [p \in Points |-> <<>>])
  IN [p \in Points |-> IF GetDomain(p) THEN owned[p] ELSE RestartHalo(file, nVar)]

\* the set-up of a start: restart flag, restart file, nearfield weight file
StartConfig(c, restart, file, weight) ==
  c @@ [Restart |-> restart, RestartFile |-> file, WeightNF |-> weight]

StartFrame(name, to) ==
  /\ pc' = to
  /\ lastOp' = name
  /\ UNCHANGED <<cfg, sensVars, ExtIter, iRKStep, iEdge, iMarker, pass, firstRes, remote>>
  /\ UNCHANGED <<resVars, auxVars, JacOps>>

\* lines 150-163: no restart, every node starts from the free-stream adjoint
Constructor_FreeStream ==
  /\ pc = "constructor"
  /\ ~cfg.Restart
  /\ Solution' = SetSolution_MPI([p \in Points |-> Zero(nVar)], remote)
  /\ Solution_Old' = [p \in Points |-> Zero(nVar)]
  /\ StartFrame("constructor", "SetIntBoundary_Jump")

\* lines 164-262: the restart file is there and is read
Constructor_Restart ==
  /\ pc = "constructor"
  /\ cfg.Restart
  /\ cfg.RestartFile.exists
  /\ Solution' = SetSolution_MPI(Constructor_Nodes(cfg.RestartFile.lines), remote)
  /\ Solution_Old' = Constructor_Nodes(cfg.RestartFile.lines)
  /\ StartFrame("constructor", "SetIntBoundary_Jump")

\* lines 195-200: "There is no adjoint restart file!!", "Press any key to
\* exit...", then cin.get()
Constructor_Restart_Diagnostic ==
  /\ pc = "constructor"
  /\ cfg.Restart
  /\ ~cfg.RestartFile.exists
  /\ StartFrame("diagnostic", "cin.get")
  /\ UNCHANGED <<Solution, Solution_Old>>

(* SetIntBoundary_Jump (636-934): the nearfield weight file *)
SetIntBoundary_Jump ==
  /\ pc = "SetIntBoundary_Jump"
  /\ cfg.Kind_ObjFunc = "EQUIVALENT_AREA" => cfg.WeightNF
  /\ StartFrame("SetIntBoundary_Jump", "SetForceProj_Vector")
  /\ UNCHANGED <<Solution, Solution_Old>>

\* lines 658-664: "There is no Weight Nearfield Pressure file", then cin.get()
SetIntBoundary_Jump_Diagnostic ==
  /\ pc = "SetIntBoundary_Jump"
  /\ cfg.Kind_ObjFunc = "EQUIVALENT_AREA"
  /\ ~cfg.WeightNF
  /\ StartFrame("diagnostic", "cin.get")
  /\ UNCHANGED <<Solution, Solution_Old>>

StartCases(n) ==
  {<<FALSE, NoRestartFile>>} \cup {<<TRUE, f>> : f \in RestartFiles(n)}

InitStart ==
  \E obj \in ObjFuncs, sc \in StartCases(4), weight \in BOOLEAN, monWall \in BOOLEAN :
    LET c == StartConfig(
               Config(2, obj, 0, "RUNGE_KUTTA_EXPLICIT", "RUNGE_KUTTA_EXPLICIT",
                      "CONTINUOUS", <<"SPACE_CENTERED", "NONE">>, FALSE,
                      <<"STEADY", FALSE, FALSE>>,
                      MarkersOf("EULER_WALL", monWall, "FAR_FIELD", FALSE)),
               sc[1], sc[2], weight)
    IN /\ cfg = c
       /\ pc = "constructor"
       /\ lastOp = "start"
       /\ ExtIter = 0 /\ iRKStep = 0 /\ iEdge = 1 /\ iMarker = 1
       /\ Solution = [p \in Points |-> <<>>]
       /\ Solution_Old = [p \in Points |-> <<>>]
       /\ ResConv = [p \in Points |-> Zero(4)]
       /\ ResVisc = [p \in Points |-> Zero(4)]
       /\ ResSour = [p \in Points |-> Zero(4)]
       /\ Res_TruncError = [p \in Points |-> Zero(4)]
       /\ ForceProj = [p \in Points |-> Zero(2)]
       /\ ObjFuncSource = [p \in Points |-> Zero(4)]
       /\ JacOps = <<>>
       /\ remote = [k \in 1..4 |-> 100 + k]
       /\ pass = 1
       /\ firstRes = [sol |-> <<>>, res |-> <<>>]
       /\ VertexNormal = [p \in Points |-> <<0, -1, 0>>]
       /\ CSensitivity = <<>>
       /\ Und_Lapl = <<>>
       /\ local = <<>>
    /\ VertexNormal = [p \in Points |-> <<0, -1, 0>>]
    /\ CSensitivity = <<>>
    /\ Und_Lapl = <<>>
    /\ local = <<>>
  /\ VertexNormal = [p \in Points |-> <<0, -1, 0>>]
  /\ CSensitivity = <<>>
  /\ Und_Lapl = <<>>
  /\ local = <<>>

\* the steps the program takes by itself
StartProgram ==
  \/ Constructor_FreeStream
  \/ Constructor_Restart
  \/ Constructor_Restart_Diagnostic
  \/ SetIntBoundary_Jump
  \/ SetIntBoundary_Jump_Diagnostic
  \/ SetForceProj_Vector
  \/ SetForceProj_Vector_Diagnostic

\* the program's steps and the one step that waits for the outside
NextStart ==
  \/ StartProgram
  \/ KeyPressed_Exit

\* the program keeps running by itself; nobody is bound to press a key
SpecStart == InitStart /\ [][NextStart]_vars /\ WF_vars(StartProgram)

(* C11, as stated: on every fatal error path (missing restart file, missing *)
(* nearfield-weight file, unsupported 2-D objective) the process, once it   *)
(* has printed its diagnostic, reaches termination without waiting for any *)
(* further external event or input.                                        *)
C11_TerminatesUnprompted ==
  (lastOp = "diagnostic") ~> (pc = "exit")

(* ========= SetSolution_MPI on every process of a run (319-436) ========= *)
\* In this specification the variables are held per process: pc, iMarker and
\* Solution are functions of the rank, cfg.Markers gives the marker list of
\* every rank, and remote holds the messages in flight, one queue per
\* (source, destination) as MPI matches them (same communicator, same tag 0).
Ranks == {0, 1}
Peer(rank) == 1 - rank
\* the four SEND_RECEIVE markers of a rank, SendRecv = +-(peer + 1): one and two
\* vertices sent from owned points, one and two received into halo points
MPI_Markers(rank) ==
  { Marker("SEND_RECEIVE", Peer(rank) + 1, FALSE, <<0>>),
    Marker("SEND_RECEIVE", Peer(rank) + 1, FALSE, <<1, 2>>),
    Marker("SEND_RECEIVE", 0 - (Peer(rank) + 1), FALSE, <<3>>),
    Marker("SEND_RECEIVE", 0 - (Peer(rank) + 1), FALSE, <<4, 5>>) }
\* every order of the markers of a rank
MarkerOrders(rank) ==
  {ms \in [1..4 -> MPI_Markers(rank)] : \A i, j \in 1..4 : i # j => ms[i] # ms[j]}

InitMPI ==
  \E m0 \in MarkerOrders(0), m1 \in MarkerOrders(1) :
    /\ cfg = [nDim |-> 2, Incompressible |-> FALSE, Markers |-> <<m0, m1>>]
    /\ pc = [r \in Ranks |-> "Barrier"]
    /\ lastOp = "SetSolution_MPI"
    /\ ExtIter = 0 /\ iRKStep = 0 /\ iEdge = 1
    /\ iMarker = [r \in Ranks |-> 1]
    /\ Solution = [r \in Ranks |-> [p \in 0..5 |-> [k \in 1..4 |-> 100 * (r + 1) + 10 * p + k]]]
    /\ Solution_Old = <<>> /\ ResConv = <<>> /\ ResVisc = <<>> /\ ResSour = <<>>
    /\ Res_TruncError = <<>> /\ ForceProj = <<>> /\ ObjFuncSource = <<>>
    /\ JacOps = <<>>
    /\ remote = [src \in 1..2 |-> [dst \in 1..2 |-> <<>>]]
    /\ pass = 1
    /\ firstRes = [sol |-> <<>>, res |-> <<>>]
    /\ VertexNormal = [p \in Points |-> <<0, -1, 0>>]
    /\ CSensitivity = <<>>
    /\ Und_Lapl = <<>>
    /\ local = <<>>
  /\ VertexNormal = [p \in Points |-> <<0, -1, 0>>]
  /\ CSensitivity = <<>>
  /\ Und_Lapl = <<>>
  /\ local = <<>>

MPI_Frame ==
  UNCHANGED <<cfg, sensVars, lastOp, ExtIter, iRKStep, iEdge, Solution_Old, resVars, auxVars,
              JacOps, pass, firstRes>>

MarkerOf(rank) == cfg.Markers[rank + 1][iMarker[rank]]
\* the step past the current marker; after the last one the closing barrier
MPI_Advance(rank) ==
  /\ iMarker' = [iMarker EXCEPT ![rank] = IF @ = 4 THEN 1 ELSE @ + 1]
  /\ pc' = [pc EXCEPT ![rank] = IF iMarker[rank] = 4 THEN "Barrier_End" ELSE "Markers"]

\* line 328: MPI::COMM_WORLD.Barrier() lets go when every rank has arrived
Barrier_Begin ==
  /\ \A r \in Ranks : pc[r] = "Barrier"
  /\ pc' = [r \in Ranks |-> "Markers"]
  /\ UNCHANGED <<iMarker, Solution, remote>>
  /\ MPI_Frame

\* line 432: the closing barrier
Barrier_End ==
  /\ \A r \in Ranks : pc[r] = "Barrier_End"
  /\ pc' = [r \in Ranks |-> "done"]
  /\ UNCHANGED <<iMarker, Solution, remote>>
  /\ MPI_Frame

\* a synchronous send would return only once the destination is in the
\* receive of one of its markers for this source
Ssend_Returns(rank, send_to) ==
  /\ pc[send_to] = "Markers"
  /\ MarkerOf(send_to).SendRecv = 0 - (rank + 1)
\* line 354, Bsend: a buffered send returns without waiting for the receiver
Bsend_Returns(rank, send_to) == TRUE

\* lines 347-355: the vectors of the marker's vertices are sent to send_to
MPI_Send(rank) ==
  /\ pc[rank] = "Markers"
  /\ MarkerOf(rank).SendRecv > 0
  /\ LET send_to == MarkerOf(rank).SendRecv - 1
         Buffer_Send_U == [k \in 1..Len(MarkerOf(rank).Vertex) |->
                             Solution[rank][MarkerOf(rank).Vertex[k]]]
     IN /\ Bsend_Returns(rank, send_to)
        /\ remote' = [remote EXCEPT ![rank + 1][send_to + 1] = Append(@, Buffer_Send_U)]
  /\ MPI_Advance(rank)
  /\ UNCHANGED Solution
  /\ MPI_Frame

\* lines 360-424: Recv takes the oldest message of receive_from that is not
\* longer than the buffer; vertices the message does not reach keep what the
\* fresh buffer held
MPI_Recv(rank) ==
  /\ pc[rank] = "Markers"
  /\ MarkerOf(rank).SendRecv < 0
  /\ LET receive_from == (0 - MarkerOf(rank).SendRecv) - 1
         queue == remote[receive_from + 1][rank + 1]
         verts == MarkerOf(rank).Vertex
     IN /\ Len(queue) > 0
        /\ Len(Head(queue)) <= Len(verts)
        /\ \E junk \in {0, 1} :
             Solution' = [Solution EXCEPT ![rank] =
               [p \in 0..5 |->
                  IF \E k \in 1..Len(verts) : verts[k] = p
                    THEN LET k == CHOOSE k \in 1..Len(verts) : verts[k] = p
                         IN newSolution(IF k <= Len(Head(queue)) THEN Head(queue)[k]
                                                               ELSE Const(4, junk), 2,
                                        GetRotation_Type(p))
                    ELSE Solution[rank][p]]]
        /\ remote' = [remote EXCEPT ![receive_from + 1][rank + 1] = Tail(@)]
  /\ MPI_Advance(rank)
  /\ MPI_Frame

\* the message is longer than the buffer: MPI's truncation error, which under
\* the default error handler aborts every process of the run
MPI_Recv_Truncate(rank) ==
  /\ pc[rank] = "Markers"
  /\ MarkerOf(rank).SendRecv < 0
  /\ LET receive_from == (0 - MarkerOf(rank).SendRecv) - 1
         queue == remote[receive_from + 1][rank + 1]
     IN Len(queue) > 0 /\ Len(Head(queue)) > Len(MarkerOf(rank).Vertex)
  /\ pc' = [r \in Ranks |-> "aborted"]
  /\ UNCHANGED <<iMarker, Solution, remote>>
  /\ MPI_Frame

NextMPI ==
  \/ Barrier_Begin
  \/ Barrier_End
  \/ \E r \in Ranks : MPI_Send(r)
  \/ \E r \in Ranks : MPI_Recv(r)
  \/ \E r \in Ranks : MPI_Recv_Truncate(r)

\* every process keeps running whenever it can take a step
SpecMPI == InitMPI /\ [][NextMPI]_vars /\ WF_vars(NextMPI)

\* the run is over on every process: the exchange returned, or MPI aborted it
MPI_Over == \A r \in Ranks : pc[r] \in {"done", "aborted"}
\* on every process the send markers come before the receive markers
SendsFirst ==
  \A r \in Ranks : \A i, j \in 1..4 :
    (cfg.Markers[r + 1][i].SendRecv > 0 /\ cfg.Markers[r + 1][j].SendRecv < 0) => i < j

(* C12: with every send marker matched by a receive marker of the same vertex
   count on the destination, SetSolution_MPI ends on every process and no
   process stays blocked in a receive, provided that on every process the send
   markers precede the receive markers. *)
C12_TerminatesSendsFirst == SendsFirst => <>MPI_Over

\* the exchange returned everywhere, and the one-vertex halo of rank 0 holds
\* what rank 1 sent from its point 0, rotated
C12_Witness ==
  /\ SendsFirst
  /\ \A r \in Ranks : pc[r] = "done"
  /\ Solution[0][3] = newSolution([k \in 1..4 |-> 200 + k], 2, GetRotation_Type(3))

\* C12 as stated: the exchange ends for every order of the markers
C12_TerminatesAnyOrder == <>MPI_Over

(* ======= Inviscid_Sensitivity (2053-2548), Smooth_Sensitivity (2550-2665) ======= *)
\* a wall over nodes 0, 1 and the halo point, a far-field boundary over the
\* last owned node
SensMarkers ==
  << Marker("EULER_WALL", 0, TRUE, <<0, 1, HaloPoint>>),
     Marker("FAR_FIELD", 0, FALSE, <<nPointDomain - 1>>) >>
\* node positions along the wall: evenly spaced, clustered at the first vertex
\* (the second vertex within 1% of the length), clustered at the last vertex
SensCoord(k) ==
  [p \in Points |->
     << CASE k = 1 -> p
          [] k = 2 -> IF p < 2 THEN p ELSE 200 + p
          [] k = 3 -> IF p = 0 THEN 0 ELSE 199 + p, 0, 0 >>]

InitSens ==
  \E adj \in {"CONTINUOUS", "DISCRETE"}, inc \in BOOLEAN, k \in 1..3, v \in 1..2 :
    LET c == [Config(2, "DRAG_COEFFICIENT", 0, "EULER_IMPLICIT", "EULER_IMPLICIT", adj,
                     <<"SPACE_CENTERED", "NONE">>, FALSE, <<"STEADY", FALSE, FALSE>>,
                     SensMarkers)
                EXCEPT !.Incompressible = inc, !.Coord = SensCoord(k)]
        n == IF inc THEN 3 ELSE 4
    IN /\ cfg = c
       /\ pc = "Inviscid_Sensitivity"
       /\ lastOp = "constructor"
       /\ ExtIter = 0 /\ iRKStep = 0 /\ iEdge = 1 /\ iMarker = 1
       /\ Solution = [p \in Points |-> InitField(v, p, n)]
       /\ Solution_Old = [p \in Points |-> InitField(v, p, n)]
       /\ ResConv = [p \in Points |-> Zero(n)]
       /\ ResVisc = [p \in Points |-> Zero(n)]
       /\ ResSour = [p \in Points |-> Zero(n)]
       /\ Res_TruncError = [p \in Points |-> Zero(n)]
       /\ ForceProj = [p \in Points |-> <<1, 0>>]
       /\ ObjFuncSource = [p \in Points |-> Zero(n)]
       /\ JacOps = <<>>
       /\ remote = InitField(v, HaloPoint, n)
       /\ pass = 1
       /\ firstRes = [sol |-> <<>>, res |-> <<>>]
       /\ VertexNormal = [p \in Points |-> <<0, -1, 0>>]
       \* line 150 of the constructor: CSensitivity[iMarker][iVertex] = 0.0
       /\ CSensitivity = [m \in 1..2 |-> [i \in 0..(Len(SensMarkers[m].Vertex) - 1) |-> 0]]
       /\ Und_Lapl = <<>>
       /\ local = <<>>


\* (d_press + grad_v + v_gradconspsi) * Area of lines 2141-2176, which comes
\* from the flow solver's gradients: here a value fixed by the node's adjoint
\* state and force projection vector
SurfaceSensitivity(iPoint) ==
  SumOver(Solution[iPoint], 1..nVar) + SumOver(ForceProj[iPoint], 1..nDim)

\* vertex iVertex (from 0) of a marker, as the code numbers them
VertexNode(m, iVertex) == cfg.Markers[m].Vertex[iVertex + 1]

\* the surface sensitivity of the owned Euler-wall vertices (lines 2089-2181),
\* and in the discrete adjoint of a compressible flow the far-field loop, whose
\* Normal is the pointer returned by GetNormal() (line 2201) and is negated in
\* place for every owned far-field vertex (line 2364)
Inviscid_Sensitivity ==
  /\ pc = "Inviscid_Sensitivity"
  /\ ExtIter < MaxExtIter
  /\ CSensitivity' =
       IF discrete THEN CSensitivity
       ELSE [m \in 1..nMarker |->
               IF cfg.Markers[m].Boundary = "EULER_WALL"
                 THEN [i \in DOMAIN CSensitivity[m] |->
                         IF GetDomain(VertexNode(m, i))
                           THEN SurfaceSensitivity(VertexNode(m, i))
                           ELSE CSensitivity[m][i]]
                 ELSE CSensitivity[m]]
  /\ VertexNormal' =
       IF ~cfg.Incompressible /\ discrete
         THEN [p \in Points |->
                 IF GetDomain(p) /\ \E m \in 1..nMarker :
                      /\ cfg.Markers[m].Boundary = "FAR_FIELD"
                      /\ \E k \in 1..Len(cfg.Markers[m].Vertex) : cfg.Markers[m].Vertex[k] = p
                   THEN VNeg(VertexNormal[p]) ELSE VertexNormal[p]]
         ELSE VertexNormal
  /\ pc' = "Smooth_Sensitivity"
  /\ lastOp' = "Inviscid_Sensitivity"
  /\ UNCHANGED <<cfg, local, Und_Lapl, ExtIter, iRKStep, iEdge, iMarker, solVars, resVars, auxVars, JacOps,
                 pass, firstRes>>

\* lines 2575-2583: the arch length up to each vertex of the marker
RECURSIVE ArchLength(_, _)
ArchLength(m, iVertex) ==
  IF iVertex = 0 THEN 0
  ELSE LET Coord_begin == GetCoord(VertexNode(m, iVertex - 1))
           Coord_end == GetCoord(VertexNode(m, iVertex))
           dx == Coord_end[1] - Coord_begin[1]
           dy == Coord_end[2] - Coord_begin[2]
       IN ArchLength(m, iVertex - 1) + Sqrt(dx * dx + dy * dy)

\* ArchLength[iVertex] < ArchLength[nVertex-1]*0.01 and > ...*0.99, in hundredths
InFirstPercent(m, i, nVertex) == 100 * ArchLength(m, i) < ArchLength(m, nVertex - 1)
InLastPercent(m, i, nVertex) == 100 * ArchLength(m, i) > 99 * ArchLength(m, nVertex - 1)

\* variant: the sensitivities as they are
TrailingEdge_None(m, sens) == sens

\* lines 2585-2602, "remove the trailing edge effect": MinNegSens is the value
\* of the first vertex beyond 1% of the length, MinPosSens that of the first
\* vertex beyond 99%, and the vertices below 1% and above 99% take them
TrailingEdge(m, sens) ==
  LET nVertex == Len(cfg.Markers[m].Vertex)
      Beyond1 == {i \in 0..(nVertex - 1) : 100 * ArchLength(m, i) > ArchLength(m, nVertex - 1)}
      Beyond99 == {i \in 0..(nVertex - 1) : InLastPercent(m, i, nVertex)}
      First(S) == CHOOSE i \in S : \A j \in S : i <= j
      MinNegSens == IF Beyond1 = {} THEN 0 ELSE sens[First(Beyond1)]
      MinPosSens == IF Beyond99 = {} THEN 0 ELSE sens[First(Beyond99)]
  IN [i \in 0..(nVertex - 1) |->
        IF InLastPercent(m, i, nVertex) THEN MinPosSens
        ELSE IF InFirstPercent(m, i, nVertex) THEN MinNegSens
        ELSE sens[i]]

\* lines 2609-2642: the periodic three-point mass matrix plus the identity;
\* an entry is 0, or 2 for a coefficient fixed by the arch lengths
MassMatrix(nVertex) ==
  [i \in 0..(nVertex - 1) |-> [j \in 0..(nVertex - 1) |->
     IF \/ j = i
        \/ j = (IF i # 0 THEN i - 1 ELSE nVertex - 1)
        \/ j = (IF i # nVertex - 1 THEN i + 1 ELSE 0)
       THEN 2 ELSE 0]]

\* the matrix without the Dirichlet row
NoDirichlet(A, nVertex) == A
\* lines 2644-2648: row int(nVertex/2) becomes the identity row
Dirichlet(A, nVertex) ==
  LET iVertex == nVertex \div 2
  IN [A EXCEPT ![iVertex][iVertex] = 1, ![iVertex][iVertex + 1] = 0,
               ![iVertex][iVertex - 1] = 0]

\* Gauss_Elimination(A, b, nVertex) leaves the solution of A x = b in b: the
\* entry of an identity row is its right-hand side, every other entry is a
\* value fixed by the system, which is left open here
Gauss_Elimination(A, b, nVertex) ==
  {x \in [0..(nVertex - 1) -> {b[i] : i \in 0..(nVertex - 1)} \cup {b[i] + 1 : i \in 0..(nVertex - 1)}] :
     \A i \in 0..(nVertex - 1) :
       IF A[i][i] = 1 /\ \A j \in 0..(nVertex - 1) : j # i => A[i][j] = 0
         THEN x[i] = b[i]
         ELSE x[i] \in {b[i], b[i] + 1}}

\* the sensitivities the call may leave on marker m: lines 2555-2656
Smoothed(m) ==
  IF cfg.Markers[m].Boundary = "EULER_WALL"
    THEN LET nVertex == Len(cfg.Markers[m].Vertex)
         IN Gauss_Elimination(Dirichlet(MassMatrix(nVertex), nVertex),
                              TrailingEdge(m, CSensitivity[m]), nVertex)
    ELSE {CSensitivity[m]}

Smooth_Sensitivity ==
  /\ pc = "Smooth_Sensitivity"
  /\ \E cs \in [1..nMarker -> UNION {Smoothed(m) : m \in 1..nMarker}] :
       /\ \A m \in 1..nMarker : cs[m] \in Smoothed(m)
       /\ CSensitivity' = cs
  /\ pc' = "Inviscid_Sensitivity"
  /\ ExtIter' = ExtIter + 1
  \* lines 2604-2607: the right-hand side b of each wall marker's system
  /\ local' = [b |-> [m \in 1..nMarker |->
                        IF cfg.Markers[m].Boundary = "EULER_WALL"
                          THEN TrailingEdge(m, CSensitivity[m]) ELSE <<>>]]
  /\ lastOp' = "Smooth_Sensitivity"
  /\ UNCHANGED <<cfg, VertexNormal, Und_Lapl, iRKStep, iEdge, iMarker, solVars, resVars,
                 auxVars, JacOps, pass, firstRes>>

NextSens == Inviscid_Sensitivity \/ Smooth_Sensitivity
SpecSens == InitSens /\ [][NextSens]_vars

(* C13: no solver operation modifies the mesh geometry: the boundary-vertex
   normals and the node coordinates keep the values they had before. *)
C13_GeometryUnchanged ==
  /\ VertexNormal = [p \in Points |-> <<0, -1, 0>>]
  /\ \A p \in Points : GetCoord(p)[2] = 0 /\ GetCoord(p)[3] = 0

\* the vertex int(nVertex/2) of marker m lies neither in the first nor in the
\* last 1% of the marker's arch length
MidInside(m) ==
  LET nVertex == Len(cfg.Markers[m].Vertex)
  IN /\ ~InFirstPercent(m, nVertex \div 2, nVertex)
     /\ ~InLastPercent(m, nVertex \div 2, nVertex)

(* C14: Smooth_Sensitivity leaves the sensitivity of the vertex nVertex/2 of a
   wall marker of at least three vertices at the value it had before the call,
   provided the arch length up to that vertex lies between 1% and 99% of the
   marker's length. *)
C14_PinnedInsideLength ==
  [][lastOp' = "Smooth_Sensitivity" =>
       \A m \in 1..nMarker :
         (cfg.Markers[m].Boundary = "EULER_WALL" /\ MidInside(m)) =>
           CSensitivity'[m][Len(cfg.Markers[m].Vertex) \div 2]
             = CSensitivity[m][Len(cfg.Markers[m].Vertex) \div 2]]_vars

\* after the call the pinned vertex still holds the sensitivity computed for
\* its node, while its neighbour was changed by the solve
C14_Witness ==
  /\ lastOp = "Smooth_Sensitivity"
  /\ ~discrete
  /\ MidInside(1)
  /\ CSensitivity[1][1] = SurfaceSensitivity(VertexNode(1, 1))
  /\ CSensitivity[1][0] # SurfaceSensitivity(VertexNode(1, 0))

\* C14 as stated: the midpoint vertex keeps its value on every wall marker
C14_Pinned ==
  [][lastOp' = "Smooth_Sensitivity" =>
       \A m \in 1..nMarker :
         cfg.Markers[m].Boundary = "EULER_WALL" =>
           CSensitivity'[m][Len(cfg.Markers[m].Vertex) \div 2]
             = CSensitivity[m][Len(cfg.Markers[m].Vertex) \div 2]]_vars

(* ------------- C29: the trailing-edge step of Smooth_Sensitivity ------- *)
\* the first vertex beyond the first 1% of the arch length, the last vertex
\* before the last 1%, and the first vertex inside the last 1%
FirstBeyond1(m, nVertex) ==
  CHOOSE j \in 0..(nVertex - 1) :
    /\ 100 * ArchLength(m, j) > ArchLength(m, nVertex - 1)
    /\ \A i \in 0..(j - 1) : ~(100 * ArchLength(m, i) > ArchLength(m, nVertex - 1))
LastBefore99(m, nVertex) ==
  CHOOSE j \in 0..(nVertex - 1) :
    /\ ~InLastPercent(m, j, nVertex)
    /\ \A i \in (j + 1)..(nVertex - 1) : InLastPercent(m, i, nVertex)
FirstBeyond99(m, nVertex) ==
  CHOOSE j \in 0..(nVertex - 1) :
    /\ InLastPercent(m, j, nVertex)
    /\ \A i \in 0..(j - 1) : ~InLastPercent(m, i, nVertex)
WallMarkers == {m \in 1..nMarker : cfg.Markers[m].Boundary = "EULER_WALL"}

\* C29 as stated: the last 1% takes the value of the nearest vertex before the
\* last 1%, as that vertex had it before the call or as the step left it
C29_NearestInteriorValue ==
  [][lastOp' = "Smooth_Sensitivity" =>
       \A m \in WallMarkers :
         LET nVertex == Len(cfg.Markers[m].Vertex)
         IN \A i \in 0..(nVertex - 1) :
              /\ InFirstPercent(m, i, nVertex)
                   => local'.b[m][i] = CSensitivity[m][FirstBeyond1(m, nVertex)]
              /\ InLastPercent(m, i, nVertex)
                   => local'.b[m][i] \in {CSensitivity[m][LastBefore99(m, nVertex)],
                                          local'.b[m][LastBefore99(m, nVertex)]}]_vars

(* C29: before its diffusion solve, Smooth_Sensitivity replaces the         *)
(* sensitivity of every vertex in the first 1% of arc length with the value *)
(* of the nearest vertex beyond the first 1%, and the sensitivity of every  *)
(* vertex in the last 1% of arc length with the value of the first vertex   *)
(* inside the last 1%, which keeps its own value; every other vertex keeps  *)
(* its value.                                                               *)
C29_TrailingEdgeValues ==
  [][lastOp' = "Smooth_Sensitivity" =>
       \A m \in WallMarkers :
         LET nVertex == Len(cfg.Markers[m].Vertex)
         IN \A i \in 0..(nVertex - 1) :
              local'.b[m][i] =
                IF InFirstPercent(m, i, nVertex)
                  THEN CSensitivity[m][FirstBeyond1(m, nVertex)]
                ELSE IF InLastPercent(m, i, nVertex)
                  THEN CSensitivity[m][FirstBeyond99(m, nVertex)]
                ELSE CSensitivity[m][i]]_vars

\* the step has run on the evenly spaced wall: the first vertex holds the
\* value the second had, which differs from what was computed for its node,
\* and the last vertex, the only one in the last 1%, holds its own value and
\* not that of the vertex before it
C29_Witness ==
  /\ lastOp = "Smooth_Sensitivity"
  /\ ~discrete
  /\ ExtIter = 1
  /\ InFirstPercent(1, 0, 3) /\ ~InFirstPercent(1, 1, 3)
  /\ ~InLastPercent(1, 1, 3) /\ InLastPercent(1, 2, 3)
  /\ local.b[1][0] = SurfaceSensitivity(VertexNode(1, 1))
  /\ local.b[1][0] # SurfaceSensitivity(VertexNode(1, 0))
  /\ local.b[1][2] = 0
  /\ local.b[1][2] # local.b[1][1]

\* the constructor has read the restart file of the run
RestartRead == cfg.Restart /\ cfg.RestartFile.exists /\ pc # "constructor"
\* the data lines come in ascending global index from 0, one for every global
\* point of the mesh
LinesInGlobalOrder(lines) ==
  /\ Len(lines) = GetGlobal_nPointDomain
  /\ \A k \in 1..Len(lines) : lines[k].index = k - 1
\* every owned node holds the values of the line that carries its global index
NodesHoldTheirLines(lines) ==
  \A p \in DomainPoints :
    \E k \in 1..Len(lines) :
      lines[k].index = GetGlobalIndex(p) /\ Solution[p] = lines[k].values

(* C15: reading a restart file gives every owned node the Solution vector
   of the data line whose <global_index> field is the node's global index,
   provided the data lines are in ascending global index starting at 0 and
   there is one for every global point. *)
C15_RoundTripInGlobalOrder ==
  (RestartRead /\ LinesInGlobalOrder(cfg.RestartFile.lines))
    => NodesHoldTheirLines(cfg.RestartFile.lines)

\* the file in global order has been read: local node 0, whose global index is
\* the last owned one, holds that line's values
C15_Witness ==
  /\ RestartRead
  /\ LinesInGlobalOrder(cfg.RestartFile.lines)
  /\ Solution[0] = RestartLine(nPointDomain - 1, nVar).values
  /\ Solution[0] # Solution[1]

\* C15 as stated: every restart file in the format is read back node by node
C15_RoundTrip == RestartRead => NodesHoldTheirLines(cfg.RestartFile.lines)

(* ==== the edge loops in any visiting order: SetUndivided_Laplacian ====== *)
(* (1374-1466) and Centered_Residual (984-1064), in the arithmetic of     *)
(* doubles                                                                 *)
\* A double keeps 53 significant bits and every sum is rounded to the nearest
\* double, ties to even.  The numbers here keep four bits: integers below 16
\* are exact, from 16 on the spacing doubles with every power of two.
Abs(x) == IF x < 0 THEN 0 - x ELSE x
RECURSIVE Ulp(_)
Ulp(a) == IF a < 16 THEN 1 ELSE 2 * Ulp(a \div 2)
Round(x) ==
  LET a == Abs(x)
      u == Ulp(a)
      lo == (a \div u) * u
      r == IF 2 * (a - lo) < u THEN lo
           ELSE IF 2 * (a - lo) > u THEN lo + u
           ELSE IF (lo \div u) % 2 = 0 THEN lo ELSE lo + u
  IN IF x < 0 THEN 0 - r ELSE r
FlAdd(a, b) == [k \in 1..Len(a) |-> Round(a[k] + b[k])]
FlSub(a, b) == [k \in 1..Len(a) |-> Round(a[k] - b[k])]

\* geometry->node[iPoint]->GetPhysicalBoundary(): the point lies on a boundary
\* that is not a partition cut
GetPhysicalBoundary(iPoint) ==
  \E m \in 1..nMarker :
    /\ cfg.Markers[m].Boundary # "SEND_RECEIVE"
    /\ \E k \in 1..Len(cfg.Markers[m].Vertex) : cfg.Markers[m].Vertex[k] = iPoint
\* vertex[iMarker][iVertex]->GetNormal_Neighbor(): the interior neighbour
GetNormal_Neighbor(iPoint) == 2

\* variant: the difference stored instead of accumulated
Laplacian_Edge_Store(lapl, e) ==
  LET iPoint == Edges[e][1]
      jPoint == Edges[e][2]
      Diff == FlSub(Solution[iPoint], Solution[jPoint])
  IN [lapl EXCEPT ![iPoint] = IF GetDomain(iPoint) THEN VNeg(Diff) ELSE @,
                  ![jPoint] = IF GetDomain(jPoint) THEN Diff ELSE @]

\* lines 1384-1417, one edge: Diff = psi_i - psi_j is subtracted at node 0 and
\* added at node 1; without STRUCTURED_GRID a boundary node takes nothing from
\* an edge to an interior node
Laplacian_Edge(lapl, e) ==
  LET iPoint == Edges[e][1]
      jPoint == Edges[e][2]
      Diff == FlSub(Solution[iPoint], Solution[jPoint])
      boundary_i == GetPhysicalBoundary(iPoint)
      boundary_j == GetPhysicalBoundary(jPoint)
      sub_i == GetDomain(iPoint) /\ (cfg.STRUCTURED_GRID \/ ~(boundary_i /\ ~boundary_j))
      add_j == GetDomain(jPoint) /\ (cfg.STRUCTURED_GRID \/ ~(~boundary_i /\ boundary_j))
  IN [lapl EXCEPT ![iPoint] = IF sub_i THEN FlSub(@, Diff) ELSE @,
                  ![jPoint] = IF add_j THEN FlAdd(@, Diff) ELSE @]

\* variant: no contribution of a mirrored value
Laplacian_Boundary_None(lapl, m, k) == lapl

\* lines 1419-1459 (STRUCTURED_GRID only): every owned vertex of a marker that
\* is not a cut, interface, nearfield or periodic boundary subtracts the
\* difference to its mirrored value; line 1464: the halo takes the neighbour's
RECURSIVE Laplacian_Boundary(_, _, _)
Laplacian_Boundary(lapl, m, k) ==
  IF m > nMarker THEN lapl
  ELSE IF k > Len(cfg.Markers[m].Vertex) THEN Laplacian_Boundary(lapl, m + 1, 1)
  ELSE LET iPoint == cfg.Markers[m].Vertex[k]
           Psi_mirror == FlSub(VScale(2, Solution[iPoint]), Solution[GetNormal_Neighbor(iPoint)])
           Diff == FlSub(Solution[iPoint], Psi_mirror)
       IN Laplacian_Boundary(
            IF /\ cfg.Markers[m].Boundary \notin {"SEND_RECEIVE", "INTERFACE_BOUNDARY",
                                                  "NEARFIELD_BOUNDARY", "PERIODIC_BOUNDARY"}
               /\ GetDomain(iPoint)
              THEN [lapl EXCEPT ![iPoint] = FlSub(@, Diff)] ELSE lapl,
            m, k + 1)
Laplacian_Close(lapl) ==
  SetSolution_MPI(IF cfg.STRUCTURED_GRID THEN Laplacian_Boundary(lapl, 1, 1) ELSE lapl,
                  Zero(nVar))

\* lines 1044-1062, one edge, each accumulation rounded
Centered_Edge(acc, e) ==
  LET iPoint == Edges[e][1]
      jPoint == Edges[e][2]
      F == CenteredFlux(Solution[iPoint], Solution[jPoint])
  IN [conv |-> [acc.conv EXCEPT ![iPoint] = FlSub(@, F.conv_i),
                                ![jPoint] = FlSub(@, F.conv_j)],
      visc |-> IF dissipation
                 THEN [acc.visc EXCEPT ![iPoint] = FlSub(@, F.visc_i),
                                       ![jPoint] = FlSub(@, F.visc_j)]
                 ELSE acc.visc,
      jac |-> acc.jac \o Centered_Implicit(iPoint, jPoint, e)]

\* the edges of the mesh in every numbering: the k-th edge visited is EdgeOrder[k]
EdgeOrders == {o \in [1..nEdge -> 1..nEdge] : \A i, j \in 1..nEdge : i # j => o[i] # o[j]}

InitOrder ==
  \* the far-field marker holds node 1, or no vertex of this partition: then
  \* the wall node 0 has two interior neighbours, one of them its normal one
  \E o \in EdgeOrders, sg \in BOOLEAN, v \in 1..2, far \in {<<1>>, <<>>} :
    LET c == Config(2, "DRAG_COEFFICIENT", 0, "EULER_IMPLICIT", "EULER_IMPLICIT",
                    "CONTINUOUS", <<"SPACE_CENTERED", "NONE">>, FALSE,
                    <<"STEADY", FALSE, FALSE>>,
                    [MarkersOf("EULER_WALL", TRUE, "FAR_FIELD", FALSE)
                       EXCEPT ![2].Vertex = far])
               @@ [EdgeOrder |-> o, STRUCTURED_GRID |-> sg]
    IN /\ cfg = c
       /\ pc = "SetUndivided_Laplacian"
       /\ lastOp = "constructor"
       /\ ExtIter = 0 /\ iRKStep = 0 /\ iEdge = 1 /\ iMarker = 1
       \* a field of components -1, 0, 1, and a field with one large value
       /\ Solution = [p \in Points |-> [k \in 1..4 |->
                        IF v = 1 THEN ((p * p + k) % 3) - 1
                        ELSE IF p = 0 THEN 16 ELSE IF p = 2 THEN 0 ELSE 1]]
       /\ Solution_Old = [p \in Points |-> Zero(4)]
       /\ ResConv = [p \in Points |-> Zero(4)]
       /\ ResVisc = [p \in Points |-> Zero(4)]
       /\ ResSour = [p \in Points |-> Zero(4)]
       /\ Res_TruncError = [p \in Points |-> Zero(4)]
       /\ ForceProj = [p \in Points |-> Zero(2)]
       /\ ObjFuncSource = [p \in Points |-> Zero(4)]
       /\ JacOps = <<>>
       /\ remote = Zero(4)
       /\ pass = 1
       /\ firstRes = [sol |-> <<>>, res |-> <<>>]
       /\ VertexNormal = [p \in Points |-> <<0, -1, 0>>]
       /\ CSensitivity = <<>>
       \* lines 1381-1382: SetUnd_LaplZero on the owned points
       /\ Und_Lapl = [p \in Points |-> Zero(4)]
       /\ local = <<>>

\* one pass of the edge loop of SetUndivided_Laplacian; the last one is
\* followed by the boundary loop and the exchange
SetUndivided_Laplacian ==
  /\ pc = "SetUndivided_Laplacian"
  /\ Und_Lapl' = IF iEdge = nEdge
                   THEN Laplacian_Close(Laplacian_Edge(Und_Lapl, cfg.EdgeOrder[iEdge]))
                   ELSE Laplacian_Edge(Und_Lapl, cfg.EdgeOrder[iEdge])
  /\ iEdge' = IF iEdge = nEdge THEN 1 ELSE iEdge + 1
  /\ pc' = IF iEdge = nEdge THEN "Centered_Residual" ELSE pc
  /\ lastOp' = "SetUndivided_Laplacian"
  /\ UNCHANGED <<cfg, local, VertexNormal, CSensitivity, ExtIter, iRKStep, iMarker, solVars,
                 resVars, auxVars, JacOps, pass, firstRes>>

\* one pass of the edge loop of Centered_Residual
Centered_Residual_Edge ==
  /\ pc = "Centered_Residual"
  /\ LET acc == Centered_Edge([conv |-> ResConv, visc |-> ResVisc, jac |-> JacOps],
                              cfg.EdgeOrder[iEdge])
     IN ResConv' = acc.conv /\ ResVisc' = acc.visc /\ JacOps' = acc.jac
  /\ iEdge' = IF iEdge = nEdge THEN 1 ELSE iEdge + 1
  /\ pc' = IF iEdge = nEdge THEN "done" ELSE pc
  /\ lastOp' = "Centered_Residual"
  /\ UNCHANGED <<cfg, sensVars, ExtIter, iRKStep, iMarker, solVars, ResSour,
                 Res_TruncError, auxVars, pass, firstRes>>

NextOrder == SetUndivided_Laplacian \/ Centered_Residual_Edge
SpecOrder == InitOrder /\ [][NextOrder]_vars

\* what the two loops leave when the edges are visited in the order 1, 2, ...
RECURSIVE Laplacian_InOrder(_)
Laplacian_InOrder(k) ==
  IF k = 0 THEN [p \in Points |-> Zero(nVar)]
  ELSE Laplacian_Edge(Laplacian_InOrder(k - 1), k)
RECURSIVE Centered_InOrder(_)
Centered_InOrder(k) ==
  IF k = 0 THEN [conv |-> [p \in Points |-> Zero(nVar)],
                 visc |-> [p \in Points |-> Zero(nVar)], jac |-> <<>>]
  ELSE Centered_Edge(Centered_InOrder(k - 1), k)
\* the calls of a log as a set: each block of each edge once
Blocks(ops) == {ops[k] : k \in 1..Len(ops)}
SameAsInOrder ==
  /\ Und_Lapl = Laplacian_Close(Laplacian_InOrder(nEdge))
  /\ local = <<>>
  /\ ResConv = Centered_InOrder(nEdge).conv
  /\ ResVisc = Centered_InOrder(nEdge).visc
  /\ Blocks(JacOps) = Blocks(Centered_InOrder(nEdge).jac)
\* no sum an accumulator can hold reaches the first integer that is rounded:
\* a node has at most three edges and one mirrored value, each of them at most
\* twice the largest component
SumsExact == \A p \in Points : \A k \in 1..nVar : 8 * Abs(Solution[p][k]) < 16

(* C16: the residual accumulators, undivided Laplacians and Jacobian blocks
   an edge loop leaves are the same for every visiting order of the edges,
   each edge visited once, provided no sum is rounded. *)
C16_SameWithoutRounding == (pc = "done" /\ SumsExact) => SameAsInOrder

\* the loops were run in an order that is not 1, 2, ... and left non-zero
\* Laplacians and residuals equal to those of the order 1, 2, ...
C16_Witness ==
  /\ pc = "done"
  /\ SumsExact
  /\ cfg.EdgeOrder[1] = nEdge
  /\ Und_Lapl[2] # Zero(nVar)
  /\ ResConv[2] # Zero(nVar)
  /\ ResConv = Centered_InOrder(nEdge).conv

\* C16 as stated: the same for every visiting order
C16_SameForEveryOrder == pc = "done" => SameAsInOrder

(* --------------- C28: the value of the undivided Laplacian ------------- *)
\* the edges that end at node i, and the node at the other end
EdgesOf(i) == {e \in 1..nEdge : Edges[e][1] = i \/ Edges[e][2] = i}
EdgeNeighbour(e, i) == IF Edges[e][1] = i THEN Edges[e][2] ELSE Edges[e][1]
\* the edges a node takes a difference from when STRUCTURED_GRID is not
\* defined (lines 1399-1414): a boundary node only those to boundary nodes
EdgesKept(i) ==
  {e \in EdgesOf(i) : ~GetPhysicalBoundary(i) \/ GetPhysicalBoundary(EdgeNeighbour(e, i))}
\* sum over the edges E of psi_j - psi_i
RECURSIVE NeighbourSum(_, _)
NeighbourSum(i, E) ==
  IF E = {} THEN Zero(nVar)
  ELSE LET e == CHOOSE x \in E : TRUE
       IN VAdd(VSub(Solution[EdgeNeighbour(e, i)], Solution[i]), NeighbourSum(i, E \ {e}))
\* the mirrored values of node i: one psi_mirror - psi_i for each vertex it
\* has on a marker of the boundary loop, psi_mirror = 2 psi_i - psi_normal
RECURSIVE MirrorSum(_, _)
MirrorSum(i, m) ==
  IF m > nMarker THEN Zero(nVar)
  ELSE VAdd(IF cfg.Markers[m].Boundary \notin {"SEND_RECEIVE", "INTERFACE_BOUNDARY",
                                               "NEARFIELD_BOUNDARY", "PERIODIC_BOUNDARY"}
              THEN VScale(VertexCount(m, i),
                          VSub(Solution[i], Solution[GetNormal_Neighbor(i)]))
              ELSE Zero(nVar),
            MirrorSum(i, m + 1))
LaplacianDone == pc \in {"Centered_Residual", "done"}

\* C28 as stated: at every owned node the sum over all edge neighbours, and a
\* mirrored-value correction at the owned nodes of the physical boundaries
C28_SumOverAllNeighbours ==
  (LaplacianDone /\ SumsExact)
    => \A i \in DomainPoints :
         Und_Lapl[i] = VAdd(NeighbourSum(i, EdgesOf(i)), MirrorSum(i, 1))

(* C28: after SetUndivided_Laplacian the undivided Laplacian of an owned    *)
(* node i is, in a build with STRUCTURED_GRID, the sum over all its edge    *)
(* neighbours j of psi_j - psi_i plus one mirrored value psi_mirror - psi_i *)
(* for each vertex of i on a marker that is not a cut, interface, nearfield *)
(* or periodic boundary; in a build without STRUCTURED_GRID it is the sum   *)
(* over the edge neighbours alone, and at a node of a physical boundary     *)
(* only over the neighbours that lie on a physical boundary too.  Sums are  *)
(* compared where no accumulation is rounded.                               *)
C28_LaplacianOfBuild ==
  (LaplacianDone /\ SumsExact)
    => \A i \in DomainPoints :
         Und_Lapl[i] = IF cfg.STRUCTURED_GRID
                         THEN VAdd(NeighbourSum(i, EdgesOf(i)), MirrorSum(i, 1))
                         ELSE NeighbourSum(i, EdgesKept(i))

\* the loops have run in a build without STRUCTURED_GRID: the wall node 0 has
\* two interior neighbours and holds neither their differences nor a mirrored
\* value, while the interior node 2 holds the sum over its three neighbours
C28_Witness ==
  /\ LaplacianDone
  /\ SumsExact
  /\ ~cfg.STRUCTURED_GRID
  /\ GetPhysicalBoundary(0)
  /\ EdgesKept(0) = {}
  /\ Cardinality(EdgesOf(0)) = 2
  /\ VAdd(NeighbourSum(0, EdgesOf(0)), MirrorSum(0, 1)) # Zero(nVar)
  /\ Und_Lapl[0] = Zero(nVar)
  /\ Cardinality(EdgesKept(2)) = 3
  /\ Und_Lapl[2] = NeighbourSum(2, EdgesOf(2))
  /\ Und_Lapl[2] # Zero(nVar)

(* C17: in continuous-adjoint mode each flux-type boundary handler (far-field,
   inlet, outlet, nacelle inflow, nacelle exhaust) subtracts the residual once
   at every owned vertex of its marker, and subtracts the node's diagonal
   Jacobian block if and only if the adjoint time integration is implicit. *)
C17_FluxHandlerBlocks ==
  [][(pc = "Boundary" /\ cfg.Markers[iMarker].Boundary \in FluxBoundaryKinds /\ ~discrete)
       => /\ ResConv' = BC_SubtractRes(ResConv, iMarker, Zero(nVar))
          /\ JacOps' = JacOps \o
               (IF implicit
                  THEN BC_DiagCalls(iMarker, "SubtractBlock", "Jacobian_ii", lastOp')
                  ELSE <<>>)]_vars

(* ------------------- C18: rows of a no-slip wall node ------------------ *)
\* the momentum rows of an accumulator at the owned vertices of marker m
\* all hold the value v
NS_Wall_MomentumRows(res, m, v) ==
  \A p \in Points : NS_Wall_Node(m, p) => \A k \in 2..(nDim + 1) : res[p][k] = v

\* the calls appended by the step delete the velocity rows of every owned
\* vertex of marker m
NS_Wall_RowsDeleted(before, after, m) ==
  \A p \in Points : NS_Wall_Node(m, p) =>
    \A iVar \in 1..nDim :
      \E i \in (Len(before) + 1)..Len(after) :
        after[i] = JacCall("DeleteValsRowi", p, iVar, "row", "BC_NS_Wall", 0)

(* C18, as stated: after BC_NS_Wall has processed a no-slip wall marker, in *)
(* every iteration, the first external iteration included, the momentum    *)
(* rows of the convective, viscous and truncation-error residuals at every *)
(* owned wall node are exactly zero, and under implicit integration the    *)
(* momentum rows of that node in the Jacobian are deleted.                 *)
C18_MomentumRowsZero ==
  [][BC_At("NO_SLIP_WALL")
       => /\ NS_Wall_MomentumRows(ResConv', iMarker, 0)
          /\ NS_Wall_MomentumRows(ResVisc', iMarker, 0)
          /\ NS_Wall_MomentumRows(Res_TruncError', iMarker, 0)
          /\ implicit => NS_Wall_RowsDeleted(JacOps, JacOps', iMarker)]_vars

(* C18, amended: after BC_NS_Wall has processed a no-slip wall marker, the  *)
(* momentum rows of the viscous and truncation-error residuals at every    *)
(* owned wall node are zero in every iteration; the momentum rows of the   *)
(* convective residual are zero in every iteration but the first external  *)
(* one, where they hold EPS; under implicit integration the momentum rows  *)
(* of the node in the Jacobian are deleted.                                *)
C18_MomentumRowsZeroAfterFirst ==
  [][BC_At("NO_SLIP_WALL")
       => /\ NS_Wall_MomentumRows(ResConv', iMarker, IF ExtIter = 0 THEN EPS ELSE 0)
          /\ NS_Wall_MomentumRows(ResVisc', iMarker, 0)
          /\ NS_Wall_MomentumRows(Res_TruncError', iMarker, 0)
          /\ implicit => NS_Wall_RowsDeleted(JacOps, JacOps', iMarker)]_vars

\* a wall handler has returned in a later iteration of an implicit run, and
\* an owned wall node has its convective momentum rows at zero
C18_Witness ==
  /\ lastOp = "BC_NS_Wall"
  /\ ExtIter > 0
  /\ implicit
  /\ \E p \in NS_Wall_Vertices :
       /\ GetDomain(p)
       /\ Momentum(ResConv[p]) = Zero(nDim)
       /\ \E i \in 1..Len(JacOps) : JacOps[i].src = "BC_NS_Wall" /\ JacOps[i].row = p
(* ---------------- C19: the Dirichlet value of the Euler wall ------------ *)
(* C19, as stated: after BC_Euler_Wall has processed a wall marker, the     *)
(* momentum components of the adjoint state stored at every owned wall     *)
(* node hold the Dirichlet value imposed by the handler: their projection  *)
(* on the unit wall normal equals the projection of the node's             *)
(* force-projection vector (phin = bcn).                                   *)
C19_StoredStateOnDirichlet ==
  [][(BC_At("EULER_WALL") /\ ~discrete)
       => \A p \in Points :
            (GetDomain(p) /\ VertexCount(iMarker, p) > 0)
              => Euler_Wall_Projections(Solution'[p], p).phin
                   = Euler_Wall_Projections(Solution'[p], p).bcn]_vars

(* C19, amended: BC_Euler_Wall of the continuous adjoint leaves the stored  *)
(* adjoint state of every node as it was; at every owned wall node the     *)
(* handler's copy of the state, after the correction, has phin = bcn (phin *)
(* with the rotating-frame term), and the flux of that copy is what the    *)
(* convective residual of the node loses.                                  *)
C19_CopyOnDirichlet ==
  [][(BC_At("EULER_WALL") /\ ~discrete)
       => /\ Solution' = Solution
          /\ \A p \in Points :
               (GetDomain(p) /\ VertexCount(iMarker, p) > 0)
                 => LET Psi == Euler_Wall_Psi(Solution, p)
                    IN /\ Euler_Wall_Projections(Psi, p).phin
                            = Euler_Wall_Projections(Psi, p).bcn
                       /\ VSub(ResConv[p], ResConv'[p])
                            = VScale(VertexCount(iMarker, p), BoundaryFlux(Psi, Zero(nVar)))]_vars
\* the wall handler of a continuous run has returned; at an owned wall node
\* the force-projection vector has a normal component, the stored state is
\* off the Dirichlet value and the corrected copy is on it
C19_Witness ==
  /\ lastOp = "BC_Euler_Wall"
  /\ ~discrete
  /\ \E m \in 1..nMarker, p \in Points :
       /\ cfg.Markers[m].Boundary = "EULER_WALL"
       /\ GetDomain(p) /\ VertexCount(m, p) > 0
       /\ Euler_Wall_Projections(Solution[p], p).bcn # 0
       /\ Euler_Wall_Projections(Solution[p], p).phin
            # Euler_Wall_Projections(Solution[p], p).bcn
       /\ Euler_Wall_Projections(Euler_Wall_Psi(Solution, p), p).phin
            = Euler_Wall_Projections(Solution[p], p).bcn
(* ------------------- C20: the state after BC_FWH ----------------------- *)
(* C20: after BC_FWH has processed a marker, at every vertex node of the    *)
(* marker the adjoint solution and the old solution both equal the node's  *)
(* stored jump vector, all four residual accumulators (convective, source, *)
(* viscous, truncation error) are zero in every component, and under       *)
(* implicit integration all nVar Jacobian rows of the node are deleted.    *)
C20_DirichletOverride ==
  [][BC_At("FWH_SURFACE")
       => \A iVertex \in 1..Len(cfg.Markers[iMarker].Vertex) :
            LET iPoint == cfg.Markers[iMarker].Vertex[iVertex]
            IN /\ Solution'[iPoint] = GetIntBoundary_Jump(iPoint)
               /\ Solution_Old'[iPoint] = GetIntBoundary_Jump(iPoint)
               /\ ResConv'[iPoint] = Zero(nVar)
               /\ ResSour'[iPoint] = Zero(nVar)
               /\ ResVisc'[iPoint] = Zero(nVar)
               /\ Res_TruncError'[iPoint] = Zero(nVar)
               /\ implicit =>
                    \A iVar \in 0..(nVar - 1) :
                      \E i \in (Len(JacOps) + 1)..Len(JacOps') :
                        JacOps'[i] = JacCall("DeleteValsRowi", iPoint, iVar, "row",
                                             "BC_FWH", 0)]_vars

\* BC_FWH has returned in an implicit run that started off the jump vectors:
\* a vertex node of the surface is on its jump vector with empty accumulators
\* and its rows deleted, while other nodes still carry a residual
C20_Witness ==
  /\ lastOp = "BC_FWH"
  /\ implicit
  /\ \E m \in 1..nMarker, p \in Points :
       /\ cfg.Markers[m].Boundary = "FWH_SURFACE" /\ VertexCount(m, p) > 0
       /\ Solution[p] = GetIntBoundary_Jump(p)
       /\ ResConv[p] = Zero(nVar) /\ ResSour[p] = Zero(nVar)
       /\ ResVisc[p] = Zero(nVar) /\ Res_TruncError[p] = Zero(nVar)
       /\ \E i \in 1..Len(JacOps) : JacOps[i].src = "BC_FWH" /\ JacOps[i].row = p
       /\ \E q \in Points : ResConv[q] # Zero(nVar)
(* ---------------- C21: the system of ImplicitEuler_Iteration ----------- *)
\* the number of calls of the log that add Vol/Delta_Time to the diagonal
\* block of point p
DiagAdded(ops, p) ==
  Cardinality({i \in 1..Len(ops) :
                 /\ ops[i].op = "AddVal2Diag" /\ ops[i].blk = "Delta"
                 /\ ops[i].row = p /\ ops[i].col = p})

(* C21: ImplicitEuler_Iteration builds the linear system so that, when the  *)
(* solver is called, every owned node's right-hand side is minus the sum   *)
(* of its convective, viscous, source and truncation-error residuals, its  *)
(* diagonal block has had Volume/Delta_Time added exactly once, and every  *)
(* halo node's right-hand-side and solution-buffer entries are zero;       *)
(* afterwards each owned node's adjoint state equals its previous state    *)
(* plus the solved increment.                                              *)
C21_ImplicitSystem ==
  [][(pc = "Time_Integration" /\ lastOp' = "ImplicitEuler_Iteration")
       => \A p \in Points :
            IF GetDomain(p)
              THEN /\ \A k \in 1..nVar :
                        ImplicitEuler_rhs[p][k]
                          = 0 - (ResConv[p][k] + ResVisc[p][k] + ResSour[p][k]
                                   + Res_TruncError[p][k])
                   /\ DiagAdded(JacOps', p) = 1
                   /\ Solution'[p] = VAdd(Solution[p], LinearSolve(ImplicitEuler_rhs)[p])
              ELSE /\ ImplicitEuler_rhs[p] = Zero(nVar)
                   /\ ImplicitEuler_xsol[p] = Zero(nVar)
                   /\ DiagAdded(JacOps', p) = 0]_vars

\* the implicit step has returned, an owned node has moved off the state it
\* had when the iteration began, with a truncation error in its residual
C21_Witness ==
  /\ lastOp = "ImplicitEuler_Iteration"
  /\ \E p \in DomainPoints :
       /\ firstRes.sol # <<>>
       /\ Solution[p] # firstRes.sol[p]
       /\ Res_TruncError[p] # Zero(nVar)
       /\ DiagAdded(JacOps, p) = 1
(* ------------------- C22: the explicit integrators --------------------- *)
\* Res*Delta_Time/Volume times the coefficient c, Res being the sum of the
\* four accumulators of the point
ExplicitStep(p, c) ==
  [k \in 1..nVar |->
     ((ResConv[p][k] + ResVisc[p][k] + ResSour[p][k] + Res_TruncError[p][k])
        * GetDelta_Time(p) * c) \div GetVolume(p)]

\* the point is a vertex of a marker this process receives on
OnReceiveMarker(p) ==
  \E m \in 1..nMarker : /\ cfg.Markers[m].Boundary = "SEND_RECEIVE"
                        /\ cfg.Markers[m].SendRecv < 0
                        /\ VertexCount(m, p) > 0

(* C22: ExplicitEuler_Iteration and ExplicitRK_Iteration change the adjoint *)
(* state of owned nodes only, each component by exactly -Res*Dt/Volume     *)
(* (times the stage coefficient for Runge-Kutta), where Res is the sum of  *)
(* the node's convective, viscous, source and truncation-error residuals;  *)
(* halo nodes are changed only by the halo exchange that follows.          *)
C22_ExplicitUpdate ==
  [][(pc = "Time_Integration"
        /\ lastOp' \in {"ExplicitRK_Iteration", "ExplicitEuler_Iteration"})
       => LET c == IF lastOp' = "ExplicitRK_Iteration"
                     THEN Get_Alpha_RKStep(iRKStep) ELSE 1
          IN \A p \in Points :
               Solution'[p] =
                 IF OnReceiveMarker(p)
                   THEN newSolution(RemoteUpdate(remote), nDim, GetRotation_Type(p))
                 ELSE IF GetDomain(p) THEN VSub(Solution[p], ExplicitStep(p, c))
                 ELSE Solution[p]]_vars

\* a first Runge-Kutta stage has returned, with a stage coefficient other
\* than one: an owned node has moved off the state it had when the stage
\* began, and the halo node holds what the neighbour sent
C22_Witness ==
  /\ lastOp = "ExplicitRK_Iteration"
  /\ iRKStep = 1
  /\ Get_Alpha_RKStep(0) # 1
  /\ firstRes.sol # <<>>
  /\ \E p \in DomainPoints : Solution[p] # firstRes.sol[p]
  /\ Solution[HaloPoint] = newSolution(remote, nDim, GetRotation_Type(HaloPoint))
(* --------------------- C23: Solve_LinearSystem ------------------------- *)
(* C23: Solve_LinearSystem uses each owned node's stored objective-function *)
(* source vector as the right-hand side and, after the solve, every owned  *)
(* node's adjoint state equals the solved vector itself, independent of    *)
(* the state the node had before the call.                                 *)
C23_StateIsSolvedVector ==
  [][(pc = "Time_Integration" /\ lastOp' = "Solve_LinearSystem")
       => \A p \in DomainPoints :
            /\ Solve_rhs[p] = ObjFuncSource[p]
            /\ Solution'[p] = LinearSolve([q \in Points |-> ObjFuncSource[q]])[p]]_vars

\* the solve has returned: an owned wall node with a source vector holds the
\* solved vector, which is not the state it had when the iteration began
C23_Witness ==
  /\ lastOp = "Solve_LinearSystem"
  /\ firstRes.sol # <<>>
  /\ \E p \in DomainPoints :
       /\ ObjFuncSource[p] # Zero(nVar)
       /\ Solution[p] = LinearSolve(Solve_rhs)[p]
       /\ Solution[p] # firstRes.sol[p]
(* ------------------ C24: what the exchange delivers -------------------- *)
\* the markers of a rank that send to (dir = 1) or receive from (dir = -1)
\* the rank other, in the order of the marker loop: with the one tag of lines
\* 354 and 374, the j-th receive takes the message of the j-th send
MarkersWith(rank, other, dir) ==
  LET Is(mk) == mk.SendRecv = dir * (other + 1)
  IN SelectSeq(cfg.Markers[rank + 1], Is)

\* the state received at vertex k of the j-th receive marker of the rank is
\* the state sent from vertex k of the j-th send marker of its neighbour: the
\* density and the energy as sent, the momentum components multiplied by the
\* rotation matrix of the vertex's periodic index, and every component as
\* sent when the angles of that index are all zero
Delivered(rank) ==
  LET recvs == MarkersWith(rank, Peer(rank), -1)
      sends == MarkersWith(Peer(rank), rank, 1)
  IN \A j \in 1..Len(recvs) : \A k \in 1..Len(recvs[j].Vertex) :
       LET iPoint == recvs[j].Vertex[k]
           got == Solution[rank][iPoint]
           sent == Solution[Peer(rank)][sends[j].Vertex[k]]
           R == rotMatrix(GetRotation_Type(iPoint))
       IN /\ got[1] = sent[1]
          /\ got[4] = sent[4]
          /\ got[2] = R[1][1] * sent[2] + R[1][2] * sent[3]
          /\ got[3] = R[2][1] * sent[2] + R[2][2] * sent[3]
          /\ GetPeriodicRotation(GetRotation_Type(iPoint)) = <<0, 0, 0>> => got = sent

(* C24: after SetSolution_MPI completes, every vertex node of a receive     *)
(* marker holds the values sent for the corresponding vertex of its        *)
(* matching send marker, with only the momentum components transformed by  *)
(* the rotation matrix of the vertex's periodic index and the density and  *)
(* energy components copied unchanged; when all rotation angles are zero   *)
(* the received state equals the sent state in every component.            *)
C24_ReceivedIsSentRotated ==
  (\A r \in Ranks : pc[r] = "done") => \A r \in Ranks : Delivered(r)

\* the exchange returned on both ranks: the halo point 4 of rank 1, of the
\* rotated index, holds the momentum of point 1 of rank 0 turned by 90
\* degrees, and the halo point 5, of the index without rotation, holds the
\* state of point 2 as it was sent
C24_Witness ==
  /\ \A r \in Ranks : pc[r] = "done"
  /\ Solution[1][4] = <<111, 113, 0 - 112, 114>>
  /\ Solution[1][5] = Solution[0][2]
(* ------- BC_Inlet, BC_NacelleExhaust: the TOTAL_CONDITIONS state -------- *)
IsSquare(x) == \E r \in 0..x : r * r = x
Max(a, b) == IF a >= b THEN a ELSE b

\* variant: the Mach number squared raised to one where it is below
Mach2_Floor(Velocity2, SoundSpeed2) ==
  IF Velocity2 < SoundSpeed2 THEN <<1, 1>> ELSE <<Velocity2, SoundSpeed2>>

\* lines 3795-3796 and 4474-4475: Mach2 = Velocity2/SoundSpeed2 (kept as the
\* pair numerator, denominator; SoundSpeed2 > 0), then Mach2 = min(1.0, Mach2)
Mach2_Cut(Velocity2, SoundSpeed2) ==
  IF Velocity2 > SoundSpeed2 THEN <<1, 1>> ELSE <<Velocity2, SoundSpeed2>>

\* lines 3778-3801 and 4459-4479: the quadratic for the velocity magnitude and
\* the cut of the Mach number, for a gas with Gamma_Minus_One = gm1
Total_Conditions(alpha, Riemann, SoundSpeed_Total2, gm1) ==
  LET aa == 1 + (gm1 * alpha * alpha) \div 2
      bb == (0 - 1) * gm1 * alpha * Riemann
      cc == (gm1 * Riemann * Riemann) \div 2 - (2 * SoundSpeed_Total2) \div gm1
      dd0 == bb * bb - 4 * aa * cc
      dd == Sqrt(Max(0, dd0))
      root == ((0 - bb) + dd) \div (2 * aa)
      Vel_Mag0 == Max(0, root)
      Velocity20 == Vel_Mag0 * Vel_Mag0
      SoundSpeed20 == SoundSpeed_Total2 - (gm1 * Velocity20) \div 2
      Mach2 == Mach2_Cut(Velocity20, SoundSpeed20)
      Velocity2 == (Mach2[1] * SoundSpeed20) \div Mach2[2]
  IN [aa |-> aa, bb |-> bb, dd |-> dd, root |-> root,
      Mach2_domain |-> <<Velocity20, SoundSpeed20>>, Mach2 |-> Mach2,
      Velocity2 |-> Velocity2, Vel_Mag |-> Sqrt(Velocity2),
      SoundSpeed2 |-> SoundSpeed_Total2 - (gm1 * Velocity2) \div 2]

\* the inputs on which every root and quotient of the computation is an
\* integer and the speed of sound of the first pass is real
Total_Exact(alpha, Riemann, SoundSpeed_Total2, gm1) ==
  LET aa == 1 + (gm1 * alpha * alpha) \div 2
      bb == (0 - 1) * gm1 * alpha * Riemann
      cc == (gm1 * Riemann * Riemann) \div 2 - (2 * SoundSpeed_Total2) \div gm1
      dd0 == bb * bb - 4 * aa * cc
  IN /\ IsSquare(Max(0, dd0))
     /\ ((0 - bb) + Sqrt(Max(0, dd0))) % (2 * aa) = 0
     /\ LET v == Max(0, ((0 - bb) + Sqrt(Max(0, dd0))) \div (2 * aa))
            c2 == SoundSpeed_Total2 - (gm1 * v * v) \div 2
        IN c2 > 0 /\ (v * v > c2 => IsSquare(c2))

MaxRiemann == 6
MaxSoundSpeed_Total2 == 40

InitInlet ==
  \E alpha \in {0 - 1, 0, 1}, Riemann \in (0 - MaxRiemann)..MaxRiemann,
     SoundSpeed_Total2 \in 1..MaxSoundSpeed_Total2 :
    /\ Total_Exact(alpha, Riemann, SoundSpeed_Total2, 2)
    /\ cfg = [nDim |-> 2, Incompressible |-> FALSE, Gamma_Minus_One |-> 2, alpha |-> alpha,
              Riemann |-> Riemann, SoundSpeed_Total2 |-> SoundSpeed_Total2]
    /\ pc = "Boundary"
    /\ lastOp = "Preprocessing"
    /\ ExtIter = 0 /\ iRKStep = 0 /\ iEdge = 1 /\ iMarker = 1
    /\ Solution = <<>> /\ Solution_Old = <<>>
    /\ ResConv = <<>> /\ ResVisc = <<>> /\ ResSour = <<>> /\ Res_TruncError = <<>>
    /\ ForceProj = <<>> /\ ObjFuncSource = <<>>
    /\ JacOps = <<>>
    /\ remote = <<>>
    /\ pass = 1
    /\ firstRes = [sol |-> <<>>, res |-> <<>>]
    /\ VertexNormal = <<>>
    /\ CSensitivity = <<>>
    /\ Und_Lapl = <<>>
    /\ local = <<>>

Total_Frame ==
  UNCHANGED <<cfg, VertexNormal, CSensitivity, Und_Lapl, ExtIter, iRKStep, iEdge, iMarker,
              pass, firstRes, solVars, resVars, auxVars, JacOps>>

\* BC_Inlet, case TOTAL_CONDITIONS (lines 3739-3830)
Inlet_Total_Conditions ==
  /\ pc = "Boundary"
  /\ local' = Total_Conditions(cfg.alpha, cfg.Riemann, cfg.SoundSpeed_Total2,
                               cfg.Gamma_Minus_One)
  /\ pc' = "done"
  /\ lastOp' = "BC_Inlet"
  /\ Total_Frame

\* BC_NacelleExhaust (lines 4420-4500): the same construction
NacelleExhaust_Total_Conditions ==
  /\ pc = "Boundary"
  /\ local' = Total_Conditions(cfg.alpha, cfg.Riemann, cfg.SoundSpeed_Total2,
                               cfg.Gamma_Minus_One)
  /\ pc' = "done"
  /\ lastOp' = "BC_NacelleExhaust"
  /\ Total_Frame

NextInlet == Inlet_Total_Conditions \/ NacelleExhaust_Total_Conditions

SpecInlet == InitInlet /\ [][NextInlet]_vars

(* C25, as stated: in the TOTAL_CONDITIONS inlet construction the velocity  *)
(* magnitude is taken from the + root of the quadratic formula and floored *)
(* at 0.0, and the Mach number is floored at 1.0.                          *)
C25_MachFloored ==
  pc = "done"
    => /\ local.root * 2 * local.aa = (0 - local.bb) + local.dd
       /\ local.Mach2_domain[1] = Max(0, local.root) * Max(0, local.root)
       /\ local.Mach2[1] >= local.Mach2[2]

(* C25, amended: in the TOTAL_CONDITIONS inlet construction the velocity    *)
(* magnitude is taken from the + root of the quadratic formula and floored *)
(* at 0.0, and the Mach number is capped at 1.0: a larger Mach number is   *)
(* cut to 1.0 and a smaller one is kept, and the velocity magnitude is     *)
(* that Mach number times the speed of sound.                              *)
C25_MachCapped ==
  pc = "done"
    => /\ local.root * 2 * local.aa = (0 - local.bb) + local.dd
       /\ local.Mach2_domain[1] = Max(0, local.root) * Max(0, local.root)
       /\ local.Mach2[1] <= local.Mach2[2]
       /\ (local.Mach2_domain[1] <= local.Mach2_domain[2]
             => local.Velocity2 = local.Mach2_domain[1])
       /\ (local.Mach2_domain[1] > local.Mach2_domain[2]
             => local.Velocity2 = local.Mach2_domain[2])
       /\ local.Vel_Mag * local.Vel_Mag = local.Velocity2

\* the inlet construction has run on a state whose + root is positive and
\* gives a Mach number above one: the Mach number is cut to one and the
\* velocity is the speed of sound of the first pass
C25_Witness ==
  /\ pc = "done" /\ lastOp = "BC_Inlet"
  /\ local.root > 0
  /\ local.Mach2_domain[1] > local.Mach2_domain[2]
  /\ local.Mach2 = <<1, 1>>
  /\ local.Velocity2 = local.Mach2_domain[2]
(* ------------- BC_Outlet, compressible: the exterior state ------------- *)
\* a/b for b # 0 on operands whose quotient is an integer
Quot(a, b) == IF b > 0 THEN a \div b ELSE (0 - a) \div (0 - b)

\* lines 4080-4090: Mach_Exit >= 1.0 for the interior state U_domain, with
\* Gamma = 3: Pressure = 2*Density*(Energy - Velocity2/2), SoundSpeed^2 =
\* 3*Pressure/Density, compared through the squares
Outlet_Supersonic(U_domain) ==
  LET Density == U_domain[1]
      Velocity == [iDim \in 1..2 |-> U_domain[iDim + 1] \div Density]
      Velocity2 == Velocity[1] * Velocity[1] + Velocity[2] * Velocity[2]
      Energy == U_domain[4] \div Density
      Pressure == 2 * Density * Energy - Density * Velocity2
      SoundSpeed2 == (3 * Pressure) \div Density
  IN Velocity2 >= SoundSpeed2

\* variant: the interior adjoint state carried to the exterior as it is
Outlet_Psi_Domain(Psi_domain, Velocity, UnitaryNormal, a1_num, Ubn) ==
  [finite |-> TRUE, Psi |-> Psi_domain]

\* lines 4146-4181: Vn, a1 = a1_num/(Vn - Ubn) with a1_num =
\* Gamma*P_Exit/(Density*Gamma_Minus_One), and the exterior adjoint state
\* from the adjoint energy of the interior.  With Vn = Ubn the quotient is
\* infinite and the products and sums that use it leave inf or NaN in the
\* density and momentum components: finite is FALSE and only the energy
\* component of Psi is meaningful.
Outlet_Psi_Subsonic(Psi_domain, Velocity, UnitaryNormal, a1_num, Ubn) ==
  LET Vn == Velocity[1] * UnitaryNormal[1] + Velocity[2] * UnitaryNormal[2]
      Velocity2 == Velocity[1] * Velocity[1] + Velocity[2] * Velocity[2]
      PsiE == Psi_domain[4]
  IN IF Vn = Ubn
       THEN [finite |-> FALSE, Psi |-> <<0, 0, 0, PsiE>>]
       ELSE LET a1 == Quot(a1_num, Vn - Ubn)
            IN [finite |-> TRUE, Psi |->
               << (PsiE * Velocity2) \div 2
                    + PsiE * a1 * Velocity[1] * UnitaryNormal[1]
                    + PsiE * a1 * Velocity[2] * UnitaryNormal[2],
                  0 - PsiE * (a1 * UnitaryNormal[1] + Velocity[1]),
                  0 - PsiE * (a1 * UnitaryNormal[2] + Velocity[2]),
                  PsiE >>]

\* lines 4092-4181: the flow and adjoint states handed to the flux routine.
\* The state of the back pressure (4115-4144, pow and sqrt of the entropy
\* relation) enters through its density, its energy and the change dVn of
\* the normal velocity.
Outlet_State(in) ==
  IF Outlet_Supersonic(in.U_domain)
    THEN [U_outlet |-> in.U_domain, Psi_outlet |-> Zero(4), finite |-> TRUE,
          Velocity |-> <<0, 0>>]
    ELSE LET Velocity == [iDim \in 1..2 |->
                            in.U_domain[iDim + 1] \div in.U_domain[1]
                              + in.dVn * in.UnitaryNormal[iDim]]
         IN [U_outlet |-> <<in.Density, Velocity[1] * in.Density,
                            Velocity[2] * in.Density, in.Energy * in.Density>>,
             Psi_outlet |-> Outlet_Psi_Subsonic(in.Psi_domain, Velocity,
                                                in.UnitaryNormal, in.a1_num, in.Ubn).Psi,
             finite |-> Outlet_Psi_Subsonic(in.Psi_domain, Velocity,
                                            in.UnitaryNormal, in.a1_num, in.Ubn).finite,
             Velocity |-> Velocity]

\* interior states of unit density with even velocity components, so that
\* Velocity2/2 is an integer; a1_num is a common multiple of the divisors
OutletInputs ==
  [U_domain : {<<1, u, v, E>> : u \in {0 - 2, 0, 2}, v \in {0 - 2, 0, 2}, E \in {5, 6}},
   Psi_domain : {<<1, 2, 3, 0>>, <<1, 2, 3, 1>>, <<0, 0, 0, 0 - 2>>},
   UnitaryNormal : {<<1, 0>>, <<0, 1>>},
   dVn : {0 - 2, 0, 2}, Density : {1}, Energy : {4}, a1_num : {60},
   Ubn : {0, 0 - 1}]

InitOutlet ==
  \E in \in OutletInputs :
    /\ cfg = [nDim |-> 2, Incompressible |-> FALSE, in |-> in]
    /\ pc = "Boundary"
    /\ lastOp = "Preprocessing"
    /\ ExtIter = 0 /\ iRKStep = 0 /\ iEdge = 1 /\ iMarker = 1
    /\ Solution = <<>> /\ Solution_Old = <<>>
    /\ ResConv = <<>> /\ ResVisc = <<>> /\ ResSour = <<>> /\ Res_TruncError = <<>>
    /\ ForceProj = <<>> /\ ObjFuncSource = <<>>
    /\ JacOps = <<>>
    /\ remote = <<>>
    /\ pass = 1
    /\ firstRes = [sol |-> <<>>, res |-> <<>>]
    /\ VertexNormal = <<>>
    /\ CSensitivity = <<>>
    /\ Und_Lapl = <<>>
    /\ local = <<>>

\* BC_Outlet up to the call of the flux routine (line 4184)
Outlet_SetStates ==
  /\ pc = "Boundary"
  /\ local' = Outlet_State(cfg.in)
  /\ pc' = "done"
  /\ lastOp' = "BC_Outlet"
  /\ Total_Frame

SpecOutlet == InitOutlet /\ [][Outlet_SetStates]_vars

(* C26, as stated: in compressible BC_Outlet, when the exit Mach number is  *)
(* at least 1.0 the exterior flow state equals the interior state and the  *)
(* exterior adjoint state is zero in every component; otherwise the        *)
(* exterior adjoint energy equals the interior adjoint energy and the      *)
(* exterior adjoint density and momentum are functions of that energy      *)
(* value only through the flow state (they are zero whenever the adjoint   *)
(* energy is zero).                                                        *)
C26_OutletStates ==
  pc = "done"
    => IF Outlet_Supersonic(cfg.in.U_domain)
         THEN local.U_outlet = cfg.in.U_domain /\ local.Psi_outlet = Zero(4)
         ELSE /\ local.Psi_outlet[4] = cfg.in.Psi_domain[4]
              /\ cfg.in.Psi_domain[4] = 0
                   => local.finite /\ \A k \in 1..3 : local.Psi_outlet[k] = 0

(* C26, amended: as stated, for a subsonic exit whose normal velocity Vn    *)
(* differs from the boundary velocity Ubn: the exterior adjoint density is *)
(* PsiE*(Velocity2/2 + a1*Vn) and the momentum -PsiE*(a1*n + Velocity),    *)
(* with a1 = Gamma*P_Exit/(Density*(Gamma-1)*(Vn - Ubn)), zero whenever    *)
(* PsiE is zero.  With Vn = Ubn the quotient a1 has a zero divisor and the *)
(* density and momentum components are not finite, whatever PsiE is.       *)
C26_OutletStatesFinite ==
  pc = "done"
    => IF Outlet_Supersonic(cfg.in.U_domain)
         THEN local.U_outlet = cfg.in.U_domain /\ local.Psi_outlet = Zero(4)
         ELSE LET Vn == local.Velocity[1] * cfg.in.UnitaryNormal[1]
                          + local.Velocity[2] * cfg.in.UnitaryNormal[2]
                  V2 == local.Velocity[1] * local.Velocity[1]
                          + local.Velocity[2] * local.Velocity[2]
                  PsiE == cfg.in.Psi_domain[4]
              IN /\ local.Psi_outlet[4] = PsiE
                 /\ Vn # cfg.in.Ubn =>
                      /\ local.finite
                      /\ 2 * (Vn - cfg.in.Ubn) * local.Psi_outlet[1]
                           = PsiE * (V2 * (Vn - cfg.in.Ubn) + 2 * cfg.in.a1_num * Vn)
                      /\ \A d \in 1..2 :
                           (Vn - cfg.in.Ubn) * local.Psi_outlet[d + 1]
                             = 0 - PsiE * (cfg.in.a1_num * cfg.in.UnitaryNormal[d]
                                             + (Vn - cfg.in.Ubn) * local.Velocity[d])
                      /\ PsiE = 0 => \A k \in 1..3 : local.Psi_outlet[k] = 0
                 /\ Vn = cfg.in.Ubn => ~local.finite

\* a subsonic exit with a normal velocity and an adjoint energy in the
\* interior: the exterior density and momentum are derived from it
C26_Witness ==
  /\ pc = "done"
  /\ ~Outlet_Supersonic(cfg.in.U_domain)
  /\ cfg.in.Psi_domain = <<1, 2, 3, 1>>
  /\ local.finite
  /\ local.Psi_outlet[4] = 1
  /\ local.Psi_outlet[1] # 0
  /\ local.Psi_outlet[2] # 2

\* ---------------------------------------------------------------------------
\* SetIntBoundary_Jump, equivalent-area objective: the weight column of a
\* near-field node (lines 641, 689-695, 737-760)
\* ---------------------------------------------------------------------------

\* short IndexNF_inv[180] (line 641)
IndexNF_inv_Size == 180

\* lines 689-693: every bucket starts at -1, then the angles of the first row
\* of WeightNF.dat get their position in that row; a later position overwrites
IndexNF_inv(IndexNF) ==
  [a \in 0..(IndexNF_inv_Size - 1) |->
     LET at == {i \in 1..Len(IndexNF) : IndexNF[i] = a}
     IN  IF at = {} THEN 0 - 1
         ELSE (CHOOSE i \in at : \A j \in at : j <= i) - 1]

\* IndexNF_inv[k]: an index outside the array reads the memory next to it; the
\* value found there is the input oob
IndexNF_inv_Read(inv, k, oob) ==
  IF k \in DOMAIN inv THEN inv[k] ELSE oob[k]

\* lines 744-760: the column of the node's own bucket, or with no column there
\* the first of the buckets +1, -1, +2, -2, +3, -3, +4, -4 whose entry is > 0
Jump_iColumn(inv, iPhiAngle, oob) ==
  LET R(k) == IndexNF_inv_Read(inv, iPhiAngle + k, oob)
      iColumn ==
        IF inv[iPhiAngle] >= 0 THEN inv[iPhiAngle]
        ELSE IF R(1) > 0 THEN R(1)
        ELSE IF R(0 - 1) > 0 THEN R(0 - 1)
        ELSE IF R(2) > 0 THEN R(2)
        ELSE IF R(0 - 2) > 0 THEN R(0 - 2)
        ELSE IF R(3) > 0 THEN R(3)
        ELSE IF R(0 - 3) > 0 THEN R(0 - 3)
        ELSE IF R(4) > 0 THEN R(4)
        ELSE IF R(0 - 4) > 0 THEN R(0 - 4)
        ELSE inv[iPhiAngle]
  IN  [iColumn |-> iColumn, warning |-> iColumn < 0]

\* the first rows of WeightNF.dat: up to two angles next to the node's bucket
JumpAngles(iPhiAngle) ==
  LET near == {a \in (iPhiAngle - 4)..(iPhiAngle + 4) : a >= 0}
  IN  {<<>>} \cup {<<a>> : a \in near} \cup {<<a, b>> : a \in near, b \in near}

\* a two-dimensional node is in bucket 0 (line 737), a three-dimensional node
\* in the bucket of its azimuthal angle (lines 738-743); below bucket 4 the
\* search reads in front of the array
JumpInputs ==
  {[nDim |-> 2, iPhiAngle |-> 0, IndexNF |-> f, oob |-> o] :
      f \in JumpAngles(0), o \in [(0 - 4)..(0 - 1) -> {0 - 1, 1}]}
  \cup
  {[nDim |-> 3, iPhiAngle |-> 30, IndexNF |-> f, oob |-> <<>>] : f \in JumpAngles(30)}

InitJump ==
  \E in \in JumpInputs :
    /\ cfg = [nDim |-> in.nDim, Incompressible |-> FALSE, in |-> in]
    /\ pc = "Boundary"
    /\ lastOp = "Preprocessing"
    /\ ExtIter = 0 /\ iRKStep = 0 /\ iEdge = 1 /\ iMarker = 1
    /\ Solution = <<>> /\ Solution_Old = <<>>
    /\ ResConv = <<>> /\ ResVisc = <<>> /\ ResSour = <<>> /\ Res_TruncError = <<>>
    /\ ForceProj = <<>> /\ ObjFuncSource = <<>>
    /\ JacOps = <<>>
    /\ remote = <<>>
    /\ pass = 1
    /\ firstRes = [sol |-> <<>>, res |-> <<>>]
    /\ VertexNormal = <<>>
    /\ CSensitivity = <<>>
    /\ Und_Lapl = <<>>
    /\ local = <<>>

\* SetIntBoundary_Jump, case EQUIVALENT_AREA, up to the label end (lines 735-762)
Jump_Column ==
  /\ pc = "Boundary"
  /\ cfg.in.iPhiAngle <= 60
  /\ local' = Jump_iColumn(IndexNF_inv(cfg.in.IndexNF), cfg.in.iPhiAngle, cfg.in.oob)
  /\ pc' = "done"
  /\ lastOp' = "SetIntBoundary_Jump"
  /\ Total_Frame

SpecJump == InitJump /\ [][Jump_Column]_vars

\* the neighbouring buckets that hold a column, and the distance of the nearest
PopulatedNear(inv, iPhiAngle) ==
  {k \in {1, 0 - 1, 2, 0 - 2, 3, 0 - 3, 4, 0 - 4} :
     (iPhiAngle + k) \in DOMAIN inv /\ inv[iPhiAngle + k] >= 0}

\* +k before -k, nearest first
NearestPopulated(inv, iPhiAngle) ==
  LET near == PopulatedNear(inv, iPhiAngle)
      d == CHOOSE d \in 1..4 : /\ \E k \in near : Abs(k) = d
                               /\ \A k \in near : Abs(k) >= d
  IN  IF d \in near THEN iPhiAngle + d ELSE iPhiAngle - d

(* C27: in SetIntBoundary_Jump for the equivalent-area objective, when a    *)
(* node's azimuthal-angle bucket has no weight column, the lookup uses the  *)
(* column of the nearest populated bucket within +-4 (trying +k before -k   *)
(* for k = 1..4); the warning is issued and the column left unset only if   *)
(* none of the eight neighbouring buckets is populated.                     *)
C27_NearestPopulatedColumn ==
  LET inv == IndexNF_inv(cfg.in.IndexNF)
      phi == cfg.in.iPhiAngle
  IN  (pc = "done" /\ inv[phi] < 0)
        => IF PopulatedNear(inv, phi) = {}
             THEN local.warning /\ local.iColumn < 0
             ELSE /\ ~local.warning
                  /\ local.iColumn = inv[NearestPopulated(inv, phi)]

\* ---------------------------------------------------------------------------
\* SetResidual_DualTime on its own: both orders of the time discretisation,
\* compressible and incompressible, every pairing of the adjoint and the flow
\* time integration
\* ---------------------------------------------------------------------------
InitDualTime ==
  \E tAdj \in TimeIntSchemes, tFlow \in {"RUNGE_KUTTA_EXPLICIT", "EULER_IMPLICIT"},
     order \in {"DT_STEPPING_1ST", "DT_STEPPING_2ND"}, inc \in BOOLEAN, v \in 1..3 :
    LET c == [Config(2, "DRAG_COEFFICIENT", 0, tAdj, tFlow, "CONTINUOUS",
                     <<"SPACE_CENTERED", "NONE">>, FALSE, <<order, FALSE, FALSE>>,
                     MarkersOf("EULER_WALL", TRUE, "FAR_FIELD", FALSE))
                EXCEPT !.Incompressible = inc]
        n == IF inc THEN 3 ELSE 4
    IN /\ cfg = c
       /\ pc = "SetResidual_DualTime"
       /\ lastOp = "Source_Residual"
       /\ ExtIter = 0 /\ iRKStep = 0 /\ iEdge = 1 /\ iMarker = 1
       /\ Solution = [p \in Points |-> InitField(v, p, n)]
       /\ Solution_Old = [p \in Points |-> InitField(v, p, n)]
       \* what the space integration left in the accumulator
       /\ ResConv = [p \in Points |-> Const(n, p + v)]
       /\ ResVisc = [p \in Points |-> Zero(n)]
       /\ ResSour = [p \in Points |-> Zero(n)]
       /\ Res_TruncError = [p \in Points |-> Zero(n)]
       /\ ForceProj = [p \in Points |-> Zero(2)]
       /\ ObjFuncSource = [p \in Points |-> Zero(n)]
       /\ JacOps = <<>>
       /\ remote = InitField(v, HaloPoint, n)
       /\ pass = 1
       /\ firstRes = [sol |-> <<>>, res |-> <<>>]
       /\ VertexNormal = [p \in Points |-> <<0, -1, 0>>]
       /\ CSensitivity = <<>>
       /\ Und_Lapl = <<>>
       /\ local = <<>>

SpecDualTime == InitDualTime /\ [][SetResidual_DualTime]_vars

\* the backward-difference term of node p: first order
\* (psi Vol - psi_n Vol)/dt, second order (3 psi Vol - 4 psi_n Vol +
\* psi_n-1 Vol)/(2 dt), with a zero continuity row in incompressible mode
BackwardDifference(p) ==
  LET V == GetVolume(p)
      dt == GetDelta_UnstTimeND
  IN [k \in 1..nVar |->
        IF cfg.Incompressible /\ k = 1 THEN 0
        ELSE IF cfg.Unsteady_Simulation = "DT_STEPPING_1ST"
          THEN (V * Solution[p][k] - V * GetSolution_time_n(p)[k]) \div dt
          ELSE (3 * V * Solution[p][k] - 4 * V * GetSolution_time_n(p)[k]
                  + V * GetSolution_time_n1(p)[k]) \div (2 * dt)]
\* the diagonal contribution Volume/dt or 3 Volume/(2 dt), zero in the
\* continuity row in incompressible mode
DiagonalContribution(p) ==
  [k \in 1..nVar |->
     IF cfg.Incompressible /\ k = 1 THEN 0
     ELSE IF cfg.Unsteady_Simulation = "DT_STEPPING_1ST"
       THEN GetVolume(p) \div GetDelta_UnstTimeND
       ELSE (3 * GetVolume(p)) \div (2 * GetDelta_UnstTimeND)]

(* C30: SetResidual_DualTime adds to every owned node's residual the first- *)
(* or second-order backward-difference term and, when the adjoint           *)
(* integration is implicit, adds the matching diagonal contribution         *)
(* Volume/dt (1st order) or 3 Volume/(2 dt) (2nd order) to the node's       *)
(* diagonal Jacobian block, and no block otherwise; in incompressible mode  *)
(* the continuity row (component 0) of both the residual term and the       *)
(* diagonal contribution is zero.                                           *)
C30_DualTimeOfAdjointScheme ==
  [][pc = "SetResidual_DualTime" =>
       /\ \A p \in DomainPoints : ResConv'[p] = VAdd(ResConv[p], BackwardDifference(p))
       /\ JacOps' = JacOps \o
            (IF implicit
               THEN [k \in 1..nPointDomain |->
                       JacCall("AddBlock", k - 1, k - 1, "Jacobian_i", "SetResidual_DualTime", 0)]
               ELSE <<>>)
       /\ implicit => \A p \in DomainPoints : local'.Jacobian_i[p] = DiagonalContribution(p)]_vars
====
